---- MODULE Spec2Model ----
(***************************************************************************)
(* Model of the voice-translation audio pipeline:                          *)
(*   - retry (services/geminiService.ts): the retry-with-backoff executor  *)
(*   - playAudio / stopAllAudio (services/geminiService.ts): the playback  *)
(*     scheduler working on nextStartTimeRef and the audioSources set      *)
(*   - App (App.tsx): the recording lifecycle (toggleRecording), the live  *)
(*     session handlers and the stop pipeline detect -> translate ->       *)
(*     synthesise -> play                                                  *)
(*   - createPcmBlob, decodeAudioData, encodeWAV and their helpers        *)
(*     (services/geminiService.ts): the sample conversions, as pure        *)
(*     functions applied to drawn inputs                                   *)
(* Times of retry are in milliseconds; times of the playback scheduler are *)
(* in sample frames of the output context.                                 *)
(***************************************************************************)
EXTENDS Integers, Sequences, FiniteSets, TLC

VARIABLES
  \* ---- retry ----
  rpc,        \* position of the retry invocation
  policy,     \* the arguments maxRetries, initialDelayMs, factor
  retries,    \* let retries
  delay,      \* let delay
  calls,      \* number of times fn() has been invoked
  fails,      \* number of those invocations that rejected
  lastErr,    \* the value the last failed invocation rejected with
  result,     \* what the promise returned by retry settled with
  \* ---- playback scheduler ----
  nextStartTime,  \* nextStartTimeRef.current
  audioSources,   \* the Set of active source ids
  currentTime,    \* audioContext.currentTime
  pendingPlay,    \* playAudio calls suspended at the decode await, oldest first
  started,        \* every source on which start() was called, in start order
  halted,         \* ids of the sources on which stop() was called
  stops,          \* number of stopAllAudio calls so far
  playCalls,      \* number of playAudio calls so far
  playRet,        \* how the most recent playAudio call settled
  \* ---- the caller of retry ----
  waits,          \* the backoff waits of the invocation so far, oldest first
  cancelled,      \* the caller has asked for the invocation to be cancelled
  \* ---- App: React state ----
  isRecording,
  isLoading,
  uiError,          \* the state `error`
  translatedText,
  hasSpeechOutput,
  detectedSourceLanguage,
  transcriptionHistory,
  \* ---- App: refs and the resources behind them ----
  mediaStreamRef,
  scriptProcessorRef,
  audioContextRef,
  liveStreams,      \* microphone streams whose tracks are not stopped
  liveProcessors,   \* script processors still connected, onaudioprocess set
  openContexts,     \* input audio contexts not closed
  liveSessionRef,
  openSessions,     \* sessions whose socket is open
  closingSessions,  \* sessions on which close() was called, close event due
  onclose,          \* per session: the isRecording its onclose handler sees
  currentInputTranscription,   \* currentInputTranscriptionRef.current
  accumulatedTranscription,    \* accumulatedTranscriptionRef.current
  \* ---- App: calls in progress and what has happened ----
  starting,         \* toggleRecording calls suspended in the Start branch
  startClicks,      \* number of Start clicks so far
  stage,            \* the await at which the stop pipeline is suspended
  finalTranscription,
  translateArgs,    \* text and source language code translateText was given
  detectResponse,   \* what the remote call of detectLanguage came to
  turns,            \* the fragments received in this recording, turn by turn
  messages,         \* number of session messages handled so far
  lastEvent,        \* the handler or continuation that ran last
  \* ---- the sample conversions ----
  codecIn,          \* the input drawn: a Float32Array or a Uint8Array
  codecOut,         \* the function applied last, and what it returned
  \* ---- the sample blocks of the ScriptProcessorNodes ----
  captured,         \* number of audioprocess events delivered so far
  forwarded         \* the sendRealtimeInput calls made, in call order

retryVars == <<rpc, policy, retries, delay, calls, fails, lastErr, result>>
schedVars == <<nextStartTime, audioSources, currentTime, pendingPlay, started,
               halted, stops, playCalls, playRet>>
callerVars == <<waits, cancelled>>
uiVars == <<isRecording, isLoading, uiError, translatedText, hasSpeechOutput,
            detectedSourceLanguage, transcriptionHistory>>
captureVars == <<mediaStreamRef, scriptProcessorRef, audioContextRef,
                 liveStreams, liveProcessors, openContexts>>
sessionVars == <<liveSessionRef, openSessions, closingSessions, onclose>>
transcriptVars == <<currentInputTranscription, accumulatedTranscription,
                    turns, messages>>
startVars == <<starting, startClicks>>
pipeVars == <<stage, finalTranscription, translateArgs, detectResponse>>
codecVars == <<codecIn, codecOut>>
blockVars == <<captured, forwarded>>
appVars == <<uiVars, captureVars, sessionVars, transcriptVars, startVars,
             pipeVars, lastEvent>>
vars == <<rpc, policy, retries, delay, calls, fails, lastErr, result,
          nextStartTime, audioSources, currentTime, pendingPlay, started,
          halted, stops, playCalls, playRet, waits, cancelled,
          isRecording, isLoading, uiError, translatedText, hasSpeechOutput,
          detectedSourceLanguage, transcriptionHistory, mediaStreamRef,
          scriptProcessorRef, audioContextRef, liveStreams, liveProcessors,
          openContexts, liveSessionRef, openSessions, closingSessions,
          onclose, currentInputTranscription, accumulatedTranscription,
          starting, startClicks, stage, finalTranscription, translateArgs,
          detectResponse, turns, messages, lastEvent, codecIn, codecOut,
          captured, forwarded>>
\* Everything but the variables of retry, of the playback scheduler, of App,
\* of the sample conversions.
notRetryVars == <<schedVars, callerVars, appVars, codecVars, blockVars>>
notSchedVars == <<retryVars, callerVars, appVars, codecVars, blockVars>>
notAppVars == <<retryVars, schedVars, callerVars, codecVars, blockVars>>
notCodecVars == <<retryVars, schedVars, callerVars, appVars, blockVars>>

(***************************************************************************)
(* Bounds of the model and program constants                               *)
(***************************************************************************)
MaxRetriesBound == 2
MaxPlayCalls == 3
MaxClock == 2
MaxStops == 1
MaxBytes == 4
MaxStarts == 2
MaxRecordings == 1
MaxMessages == 2
MaxFairCalls == 2
MaxSamples == 2
MaxPcmBytes == 6
MaxChannels == 2
MaxBlocks == 3

API_RETRY_INITIAL_DELAY_MS == 1000
API_RETRY_BACKOFF_FACTOR == 2
LIVE_AUDIO_SAMPLE_RATE == 16000
TTS_AUDIO_SAMPLE_RATE == 24000

Max(a, b) == IF a >= b THEN a ELSE b

(***************************************************************************)
(* Errors an operation can reject with.  A message is a sequence of text   *)
(* fragments (empty: no message, or the empty string; both are falsy), a   *)
(* retryDelay is a sequence of characters (empty: absent).                 *)
(***************************************************************************)
RetryInfoType == "type.googleapis.com/google.rpc.RetryInfo"
QuotaFailureType == "type.googleapis.com/google.rpc.QuotaFailure"

OverloadedMarker == "The model is overloaded"
NoAudioMarker == "TTS API returned success but no audio data found"

DigitChars == <<"0", "1", "2", "3", "4", "5", "6", "7", "8", "9">>

RECURSIVE Digits(_)
Digits(n) ==
  IF n < 10 THEN <<DigitChars[n + 1]>>
  ELSE Append(Digits(n \div 10), DigitChars[(n % 10) + 1])

\* The server's rendering of a whole-second duration: "59s".
FormatSeconds(d) == Append(Digits(d), "s")

SuggestedSeconds == {0, 5, 12}

\* retryDelay values: whole seconds, a fractional duration, and none.
RetryDelayStrings ==
  {FormatSeconds(d) : d \in {0, 5}} \cup {<<"1", ".", "5", "s">>, <<>>}

RetryInfo(s) == [type |-> RetryInfoType, retryDelay |-> s]
QuotaFailure == [type |-> QuotaFailureType, retryDelay |-> <<>>]

DetailLists ==
  {[isArray |-> FALSE, items |-> <<>>],
   [isArray |-> TRUE, items |-> <<QuotaFailure>>]}
    \cup {[isArray |-> TRUE, items |-> <<RetryInfo(s)>>] : s \in RetryDelayStrings}
    \cup {[isArray |-> TRUE, items |-> <<QuotaFailure, RetryInfo(FormatSeconds(12))>>]}

Codes ==
  {[hasCode |-> FALSE, code |-> 0], [hasCode |-> TRUE, code |-> 503],
   [hasCode |-> TRUE, code |-> 429], [hasCode |-> TRUE, code |-> 500]}

Statuses == {"undefined", "RESOURCE_EXHAUSTED"}

Messages ==
  {<<>>,
   <<"Internal error">>,
   <<OverloadedMarker, ". Please try again later.">>,
   <<NoAudioMarker, " in response.">>}

\* The objects fn() can reject with; id tells one thrown object from another.
ErrorObjects(id) ==
  {[id |-> id, isNull |-> FALSE, hasCode |-> c.hasCode, code |-> c.code,
    status |-> s, message |-> m, details |-> d] :
      c \in Codes, s \in Statuses, m \in Messages, d \in DetailLists}

\* fn() rejecting with null or undefined.
NullError(id) ==
  [id |-> id, isNull |-> TRUE, hasCode |-> FALSE, code |-> 0,
   status |-> "undefined", message |-> <<>>,
   details |-> [isArray |-> FALSE, items |-> <<>>]]

\* What reading error.message raises when error is null.
TypeError ==
  [id |-> 0, isNull |-> FALSE, hasCode |-> FALSE, code |-> 0,
   status |-> "undefined", message |-> <<"Cannot read properties of null">>,
   details |-> [isArray |-> FALSE, items |-> <<>>]]

NoError == NullError(0)

Values == {"v1", "v2"}

Policies ==
  [maxRetries : 0..MaxRetriesBound,
   initialDelayMs : {API_RETRY_INITIAL_DELAY_MS, 500},
   factor : {API_RETRY_BACKOFF_FACTOR, 3}]

(***************************************************************************)
(* retry: the classifier and the delay computation                         *)
(***************************************************************************)
\* String.prototype.includes on a message made of fragments.
Includes(message, marker) == \E i \in 1..Len(message) : message[i] = marker

isApiError(error) == error.hasCode

isRetryableError(error) ==
  \/ (isApiError(error)
        /\ (error.code = 503 \/ error.code = 429
              \/ error.status = "RESOURCE_EXHAUSTED"))
  \/ (error.message # <<>> /\ Includes(error.message, OverloadedMarker))
  \/ (error.message # <<>> /\ Includes(error.message, NoAudioMarker))

\* Variants of the terminal-throw condition: the bound tested one too late; the
\* two conditions joined by "and".
GivesUpOffByOne(error, r, maxRetries) == ~isRetryableError(error) \/ r > maxRetries

GivesUpOnlyWhenBoth(error, r, maxRetries) ==
  ~isRetryableError(error) /\ r >= maxRetries

\* Variant of the terminal throw: the retry budget is not consulted.
GivesUpOnFatalOnly(error, r, maxRetries) == ~isRetryableError(error)

\* The condition of the terminal throw.
GivesUp(error, r, maxRetries) == ~isRetryableError(error) \/ r >= maxRetries

IsDigit(ch) == \E i \in 1..10 : DigitChars[i] = ch

\* Last index of the run of digits that starts at i.
RECURSIVE DigitRunEnd(_, _)
DigitRunEnd(s, i) ==
  IF i < Len(s) /\ IsDigit(s[i + 1]) THEN DigitRunEnd(s, i + 1) ELSE i

\* Start positions at which /(\d+)s/ matches.
MatchStarts(s) ==
  {i \in 1..Len(s) :
     /\ IsDigit(s[i])
     /\ DigitRunEnd(s, i) < Len(s)
     /\ s[DigitRunEnd(s, i) + 1] = "s"}

Least(S) == CHOOSE x \in S : \A y \in S : x <= y

\* match[1] of retryDelay.match(/(\d+)s/); <<>> when there is no match.
RegexMatch(s) ==
  IF MatchStarts(s) = {} THEN <<>>
  ELSE LET i == Least(MatchStarts(s)) IN SubSeq(s, i, DigitRunEnd(s, i))

DigitValue(ch) == (CHOOSE i \in 1..10 : DigitChars[i] = ch) - 1

RECURSIVE ParseInt(_)
ParseInt(ds) ==
  IF ds = <<>> THEN 0
  ELSE 10 * ParseInt(SubSeq(ds, 1, Len(ds) - 1)) + DigitValue(ds[Len(ds)])

\* error.details.find(detail => detail['@type'] === RetryInfo): its index, 0 if none.
FindRetryInfo(items) ==
  LET hits == {i \in 1..Len(items) : items[i].type = RetryInfoType}
  IN IF hits = {} THEN 0 ELSE Least(hits)

customRetryDelay(error) ==
  IF ~error.details.isArray THEN 0
  ELSE LET k == FindRetryInfo(error.details.items)
       IN IF k = 0 THEN 0
          ELSE LET rd == error.details.items[k].retryDelay
               IN IF rd = <<>> THEN 0
                  ELSE IF RegexMatch(rd) = <<>> THEN 0
                  ELSE ParseInt(RegexMatch(rd)) * 1000

\* Variant of the delay choice: the delay the server suggests is not used.
NextDelayBackoffOnly(d, custom, factor) == d * factor

\* Variant of the delay choice: without a suggestion the schedule restarts
\* from the configured initial delay.
NextDelayRestartsSchedule(d, custom, factor) ==
  IF custom > 0 THEN custom ELSE API_RETRY_INITIAL_DELAY_MS * factor

NextDelay(d, custom, factor) == IF custom > 0 THEN custom ELSE d * factor

\* Variant of the terminal throw: throw new Error(error.message).
RethrownAsNewError(error) ==
  [kind |-> "error",
   err |-> [TypeError EXCEPT !.message = error.message],
   val |-> "none"]

\* What the promise of retry rejects with when fn() rejected with error.
Rethrown(error) == [kind |-> "error", err |-> error, val |-> "none"]

(***************************************************************************)
(* retry: the invocation as a state machine                                *)
(***************************************************************************)
NoResult == [kind |-> "none", err |-> NoError, val |-> "none"]

InitRetry ==
  /\ rpc = "idle"
  /\ policy = [maxRetries |-> 0, initialDelayMs |-> 0, factor |-> 0]
  /\ retries = 0
  /\ delay = 0
  /\ calls = 0
  /\ fails = 0
  /\ lastErr = NoError
  /\ result = NoResult

\* retry(fn, maxRetries, initialDelayMs, factor): runs up to the first await fn().
RetryCall(p) ==
  /\ rpc = "idle"
  /\ policy' = p
  /\ retries' = 0
  /\ delay' = p.initialDelayMs
  /\ calls' = 1
  /\ rpc' = "attempting"
  /\ UNCHANGED <<fails, lastErr, result>>

\* fn() resolves: return await fn().
FnResolves(v) ==
  /\ rpc = "attempting"
  /\ rpc' = "resolved"
  /\ result' = [kind |-> "value", err |-> NoError, val |-> v]
  /\ UNCHANGED <<policy, retries, delay, calls, fails, lastErr>>

\* fn() rejects with e: the catch block, up to the throw or the await of the timer.
FnRejects(e) ==
  /\ rpc = "attempting"
  /\ lastErr' = e
  /\ fails' = fails + 1
  /\ IF e.isNull
     THEN /\ rpc' = "rejected"
          /\ result' = [kind |-> "error", err |-> TypeError, val |-> "none"]
          /\ UNCHANGED <<retries, delay>>
     ELSE IF GivesUp(e, retries, policy.maxRetries)
     THEN /\ rpc' = "rejected"
          /\ result' = Rethrown(e)
          /\ UNCHANGED <<retries, delay>>
     ELSE /\ retries' = retries + 1
          /\ delay' = NextDelay(delay, customRetryDelay(e), policy.factor)
          /\ rpc' = "sleeping"
          /\ UNCHANGED result
  /\ UNCHANGED <<policy, calls>>

\* The timer of setTimeout(resolve, delay) fires: the loop calls fn() again.
TimerFires ==
  /\ rpc = "sleeping"
  /\ calls' = calls + 1
  /\ rpc' = "attempting"
  /\ UNCHANGED <<policy, retries, delay, fails, lastErr, result>>

NextRetry ==
  \/ \E p \in Policies : RetryCall(p) /\ UNCHANGED notRetryVars
  \/ \E v \in Values : FnResolves(v) /\ UNCHANGED notRetryVars
  \/ \E e \in ErrorObjects(calls) \cup {NullError(calls)} :
       FnRejects(e) /\ UNCHANGED notRetryVars
  \/ TimerFires /\ UNCHANGED notRetryVars

(***************************************************************************)
(* Playback scheduler: playAudio and stopAllAudio                          *)
(***************************************************************************)
\* A chunk handed to playAudio: whether the text is valid base64, and the
\* number of bytes it decodes to.  The empty string is valid and has 0 bytes.
Chunks ==
  {[b64ok |-> TRUE, bytes |-> n] : n \in 0..MaxBytes}
    \cup {[b64ok |-> FALSE, bytes |-> 1]}

\* !base64Audio
IsEmptyChunk(chunk) == chunk.b64ok /\ chunk.bytes = 0

\* frameCount of decodeAudioData: 16-bit samples divided by numChannels.
FrameCount(bytes, numChannels) == (bytes \div 2) \div numChannels

\* decode() throws on invalid base64, new Int16Array(data.buffer) throws on an
\* odd byte length, createBuffer throws on a length of 0 frames.
DecodeThrows(chunk) ==
  \/ ~chunk.b64ok
  \/ chunk.bytes % 2 # 0
  \/ FrameCount(chunk.bytes, 1) = 0

\* audioBuffer.duration, in frames.
Duration(chunk) == FrameCount(chunk.bytes, 1)

\* Variant of the decode: a buffer of a single frame is rejected.
DecodedRejectsOneFrame(chunk) ==
  IF DecodeThrows(chunk) \/ Duration(chunk) = 1 THEN [threw |-> TRUE, frames |-> 0]
  ELSE [threw |-> FALSE, frames |-> Duration(chunk)]

\* The promise of decodeAudioData(decode(base64Audio), ctx, rate, 1), settled
\* when the call is made: rejected, or resolved with a buffer of so many frames.
Decoded(chunk) ==
  IF DecodeThrows(chunk) THEN [threw |-> TRUE, frames |-> 0]
  ELSE [threw |-> FALSE, frames |-> Duration(chunk)]

\* nextStartTimeRef.current = Math.max(nextStartTimeRef.current, currentTime)
ClampedStart(next, now) == Max(next, now)

\* source.start(when): output begins at when, at once if when is already past.
PlaybackBegins(when, now) == Max(when, now)

\* Variant of the cursor update: the cursor restarts from the device clock.
AdvancedCursorFromClock(next, duration) == currentTime + duration

\* nextStartTimeRef.current = nextStartTimeRef.current + audioBuffer.duration
AdvancedCursor(next, duration) == next + duration

\* Variant of the stop loop: only the first source of the set is visited.
StopFirstOnly(sources, stoppedSoFar) ==
  IF sources = {} THEN [sources |-> sources, halted |-> stoppedSoFar]
  ELSE LET x == Least(sources)
       IN [sources |-> sources \ {x}, halted |-> stoppedSoFar \cup {x}]

\* for (const source of audioSources.values()) { source.stop(); delete }
\* Variant of the loop of stopAllAudio: source.stop() without the
\* audioSources.delete(source) that follows it.
StopKeepsHandles(sources, stoppedSoFar) ==
  [sources |-> sources, halted |-> stoppedSoFar \cup sources]

RECURSIVE StopEach(_, _)
StopEach(sources, stoppedSoFar) ==
  IF sources = {} THEN [sources |-> sources, halted |-> stoppedSoFar]
  ELSE LET x == Least(sources)
       IN StopEach(sources \ {x}, stoppedSoFar \cup {x})

InitSched ==
  /\ nextStartTime = 0
  /\ audioSources = {}
  /\ currentTime = 0
  /\ pendingPlay = <<>>
  /\ started = <<>>
  /\ halted = {}
  /\ stops = 0
  /\ playCalls = 0
  /\ playRet = "none"

\* playAudio with an empty string: returns at once.
PlayAudioEmpty(chunk) ==
  /\ playCalls < MaxPlayCalls
  /\ IsEmptyChunk(chunk)
  /\ playCalls' = playCalls + 1
  /\ playRet' = "void"
  /\ UNCHANGED <<nextStartTime, audioSources, currentTime, pendingPlay,
                 started, halted, stops>>

\* playAudio up to its await: the cursor is clamped to the device clock, the
\* chunk is decoded, and the call is suspended.
PlayAudioCall(chunk) ==
  /\ playCalls < MaxPlayCalls
  /\ ~IsEmptyChunk(chunk)
  /\ playCalls' = playCalls + 1
  /\ nextStartTime' = ClampedStart(nextStartTime, currentTime)
  /\ pendingPlay' =
       Append(pendingPlay,
              [id |-> playCalls + 1, buffer |-> Decoded(chunk),
               stopsAtCall |-> stops])
  /\ playRet' = "pending"
  /\ UNCHANGED <<audioSources, currentTime, started, halted, stops>>

\* The oldest suspended playAudio call resumes after its await: it rethrows a
\* decode error, or starts the source at the cursor, advances the cursor and
\* adds the source to the set.
PlayAudioResume ==
  /\ pendingPlay # <<>>
  /\ LET c == Head(pendingPlay) IN
       IF c.buffer.threw
       THEN /\ playRet' = "threw"
            /\ UNCHANGED <<nextStartTime, audioSources, started>>
       ELSE /\ started' =
                 Append(started,
                        [id |-> c.id,
                         begins |-> PlaybackBegins(nextStartTime, currentTime),
                         frames |-> c.buffer.frames,
                         clockAtStart |-> currentTime,
                         stopsAtCall |-> c.stopsAtCall,
                         stopsAtStart |-> stops])
            /\ nextStartTime' = AdvancedCursor(nextStartTime, c.buffer.frames)
            /\ audioSources' = audioSources \cup {c.id}
            /\ playRet' = "void"
  /\ pendingPlay' = Tail(pendingPlay)
  /\ UNCHANGED <<currentTime, halted, stops, playCalls>>

\* Variant of the reset: the cursor is left alone when nothing was playing.
CursorKeptWhenIdle(next, sources) == IF sources = {} THEN next ELSE 0

\* nextStartTimeRef.current = 0, whatever the cursor and the set were.
CursorAfterStop(next, sources) == 0

\* stopAllAudio, from its call to its return.
StopAllAudioCall ==
  /\ stops' = stops + 1
  /\ audioSources' = StopEach(audioSources, halted).sources
  /\ halted' = StopEach(audioSources, halted).halted
  /\ nextStartTime' = CursorAfterStop(nextStartTime, audioSources)
  /\ UNCHANGED <<currentTime, pendingPlay, started, playCalls, playRet>>

\* stopAllAudio called on the scheduler.
StopAllAudio ==
  /\ stops < MaxStops
  /\ StopAllAudioCall

\* The source with this id, among those started.
SourceOf(id) == CHOOSE src \in {started[i] : i \in 1..Len(started)} : src.id = id

\* Variant of playAudio: no 'ended' listener is registered, so a source
\* whose output has finished stays in the set.
SourceNeverRemoved(id) ==
  /\ id \in audioSources
  /\ SourceOf(id).begins + SourceOf(id).frames <= currentTime
  /\ UNCHANGED schedVars

\* The 'ended' listener of a source whose output has finished.
SourceEnded(id) ==
  /\ id \in audioSources
  /\ SourceOf(id).begins + SourceOf(id).frames <= currentTime
  /\ audioSources' = audioSources \ {id}
  /\ UNCHANGED <<nextStartTime, currentTime, pendingPlay, started, halted,
                 stops, playCalls, playRet>>

\* The device clock advances by one frame.
Tick ==
  /\ currentTime < MaxClock
  /\ currentTime' = currentTime + 1
  /\ UNCHANGED <<nextStartTime, audioSources, pendingPlay, started, halted,
                 stops, playCalls, playRet>>

NextSched ==
  \/ \E chunk \in Chunks : PlayAudioEmpty(chunk) /\ UNCHANGED notSchedVars
  \/ \E chunk \in Chunks : PlayAudioCall(chunk) /\ UNCHANGED notSchedVars
  \/ PlayAudioResume /\ UNCHANGED notSchedVars
  \/ StopAllAudio /\ UNCHANGED notSchedVars
  \/ \E id \in audioSources : SourceEnded(id) /\ UNCHANGED notSchedVars
  \/ Tick /\ UNCHANGED notSchedVars

\* The device clock keeps running while a started source has output left.
ClockRuns ==
  /\ \E id \in audioSources :
       SourceOf(id).begins + SourceOf(id).frames > currentTime
  /\ currentTime' = currentTime + 1
  /\ UNCHANGED <<nextStartTime, audioSources, pendingPlay, started, halted,
                 stops, playCalls, playRet>>

\* Every 'ended' listener whose source has finished its output.
SourcesEnd == \E id \in audioSources : SourceEnded(id) /\ UNCHANGED notSchedVars

\* The scheduler with at most MaxFairCalls calls, its clock advancing while
\* output is due.
NextSchedFair ==
  \/ \E chunk \in Chunks :
       playCalls < MaxFairCalls /\ PlayAudioEmpty(chunk) /\ UNCHANGED notSchedVars
  \/ \E chunk \in Chunks :
       playCalls < MaxFairCalls /\ PlayAudioCall(chunk) /\ UNCHANGED notSchedVars
  \/ PlayAudioResume /\ UNCHANGED notSchedVars
  \/ StopAllAudio /\ UNCHANGED notSchedVars
  \/ SourcesEnd
  \/ ClockRuns /\ UNCHANGED notSchedVars

(***************************************************************************)
(* App: the recording lifecycle, the live-session handlers and the stop    *)
(* pipeline (detect language, translate, synthesise, play)                 *)
(*                                                                         *)
(* Text is a sequence of characters or text pieces; the empty sequence is  *)
(* the empty string, and for `error` also null (both are falsy).  A ref    *)
(* holding 0 holds null.  Capture resources and sessions carry the number  *)
(* of the Start click that created them.                                   *)
(***************************************************************************)
\* Transcript fragments of inputTranscription.text.
Fragments == {<<" ">>, <<"a", " ">>}

\* The messages of the session that handleLiveMessage acts on: an input
\* transcription, a turnComplete, or both.
LiveMessages ==
  {[hasText |-> TRUE, text |-> f, turnComplete |-> tc] :
     f \in Fragments, tc \in BOOLEAN}
    \cup {[hasText |-> FALSE, text |-> <<>>, turnComplete |-> TRUE]}

\* String.prototype.trim
RECURSIVE TrimStart(_)
TrimStart(s) ==
  IF s # <<>> /\ Head(s) = " " THEN TrimStart(Tail(s)) ELSE s

RECURSIVE TrimEnd(_)
TrimEnd(s) ==
  IF s # <<>> /\ s[Len(s)] = " " THEN TrimEnd(SubSeq(s, 1, Len(s) - 1)) ELSE s

Trim(s) == TrimEnd(TrimStart(s))

\* Variant of the turn flush: the per-turn text is appended as it is.
FlushTurnUntrimmed(history, turnText) ==
  IF turnText # <<>> THEN Append(history, turnText) ELSE history

\* turnComplete: fullInputForTurn = current.trim(); if (fullInputForTurn)
\* setTranscriptionHistory(prev => [...prev, fullInputForTurn]).
FlushTurn(history, turnText) ==
  IF Trim(turnText) # <<>> THEN Append(history, Trim(turnText)) ELSE history

\* Errors the remote calls of the pipeline, getUserMedia and the session
\* connect reject with.
QuotaError ==
  [TypeError EXCEPT !.hasCode = TRUE, !.code = 429,
                    !.status = "RESOURCE_EXHAUSTED",
                    !.message = <<"You exceeded your current quota">>]
ServerError ==
  [TypeError EXCEPT !.hasCode = TRUE, !.code = 500,
                    !.message = <<"Internal error">>]
BareError == [TypeError EXCEPT !.message = <<>>]

\* A quota error (code, status and message) and an error with no message.
AppErrors == {QuotaError, BareError}

\* The error the call inside generateSpeech throws when a response has no
\* audio data; retry rethrows it once the retries are exhausted.
NoAudioError == [TypeError EXCEPT !.message = <<NoAudioMarker, " in response.">>]

\* What generateSpeech rejects with.
SpeechErrors == AppErrors \cup {NoAudioError}

LiveErrorMessage == <<"Live session error: ", ". Please try reconnecting.">>
DisconnectedMessage ==
  <<"Live session disconnected. Please click \"Start Recording\" to reconnect.">>
StartFallback == <<"Failed to start audio processing. Check console for details.">>
QuotaMessage == <<"Quota Exceeded: You've hit your API usage limit.">>
PipelineFallback ==
  <<"Failed to process translation or generate speech. Please try again.">>
TranslationFailedText == <<"Error: Translation failed.">>
NoSpeechNote == "\n\n(Note: Failed to generate speech for this translation.)"

\* Variant of the catch block of the stop pipeline: setError(message) with
\* no fallback text.
PipelineErrorMessageNoFallback(e) ==
  IF (e.hasCode /\ e.code = 429) \/ e.status = "RESOURCE_EXHAUSTED"
  THEN QuotaMessage
  ELSE e.message

\* The catch block of the stop pipeline: the text handed to setError.
PipelineErrorMessage(e) ==
  IF (e.hasCode /\ e.code = 429) \/ e.status = "RESOURCE_EXHAUSTED"
  THEN QuotaMessage
  ELSE IF e.message # <<>> THEN e.message ELSE PipelineFallback

\* The catch block of the Start branch: err.message || fallback.
StartErrorMessage(e) == IF e.message # <<>> THEN e.message ELSE StartFallback

\* What the generateContent call of detectLanguage comes to: retry rejects,
\* or a response whose text is undefined, is not JSON, or is a JSON object
\* with or without a language and a code ("null": the JSON null).
DetectResponses ==
  {[kind |-> k, language |-> "undefined", code |-> "undefined"] :
     k \in {"rejected", "undefinedText", "malformed"}}
    \cup {[kind |-> "json", language |-> l, code |-> c] :
            l \in {"undefined", "Spanish"}, c \in {"undefined", "null", "", "es"}}

NullLanguage == [isNull |-> TRUE, name |-> "", code |-> "null"]

\* The body of the try block of detectLanguage, once the call has settled.
ParsedLanguage(resp) ==
  IF /\ resp.language # "undefined"
     /\ (resp.code \notin {"undefined", ""})
  THEN [isNull |-> FALSE, name |-> resp.language, code |-> resp.code]
  ELSE NullLanguage

\* Variant of detectLanguage: no catch around the remote call and the parse.
detectLanguageUncaught(resp) ==
  IF resp.kind = "json"
  THEN [rejects |-> FALSE, value |-> ParsedLanguage(resp)]
  ELSE [rejects |-> TRUE, value |-> NullLanguage]

\* detectLanguage: how its promise settles.  A rejection of retry, a
\* TypeError of response.text.trim() and a SyntaxError of JSON.parse all end
\* in the catch block, which returns null.
detectLanguage(resp) ==
  IF resp.kind = "json"
  THEN [rejects |-> FALSE, value |-> ParsedLanguage(resp)]
  ELSE [rejects |-> FALSE, value |-> NullLanguage]

\* detectedLang?.code || null
SourceCodeArg(lang) ==
  IF lang.isNull \/ lang.code \in {"null", ""} THEN "null" ELSE lang.code

\* Texts translateText resolves with (response.text).
Translations == {<<" ">>, <<"h", "o", "l", "a">>}

\* Audio generateSpeech resolves with: of one frame, of an odd byte length,
\* and not base64.
SpeechChunks == {chunk \in Chunks : chunk.bytes \in {1, 2}}

NoArgs == [text |-> <<>>, code |-> "none"]
NoResponse == [kind |-> "none", language |-> "undefined", code |-> "undefined"]

InitApp ==
  /\ isRecording = FALSE
  /\ isLoading = FALSE
  /\ uiError = <<>>
  /\ translatedText = <<>>
  /\ hasSpeechOutput = FALSE
  /\ detectedSourceLanguage = NullLanguage
  /\ transcriptionHistory = <<>>
  /\ mediaStreamRef = 0
  /\ scriptProcessorRef = 0
  /\ audioContextRef = 0
  /\ liveStreams = {}
  /\ liveProcessors = {}
  /\ openContexts = {}
  /\ liveSessionRef = 0
  /\ openSessions = {}
  /\ closingSessions = {}
  /\ onclose = [id \in 1..MaxStarts |-> FALSE]
  /\ currentInputTranscription = <<>>
  /\ accumulatedTranscription = <<>>
  /\ turns = <<>>
  /\ messages = 0
  /\ starting = {}
  /\ startClicks = 0
  /\ stage = "idle"
  /\ finalTranscription = <<>>
  /\ translateArgs = NoArgs
  /\ detectResponse = NoResponse
  /\ lastEvent = "none"

\* The three blocks that release what mediaStreamRef, scriptProcessorRef and
\* audioContextRef point to, and null the refs.
ReleaseCapture ==
  /\ liveStreams' = liveStreams \ {mediaStreamRef}
  /\ mediaStreamRef' = 0
  /\ liveProcessors' = liveProcessors \ {scriptProcessorRef}
  /\ scriptProcessorRef' = 0
  /\ openContexts' = openContexts \ {audioContextRef}
  /\ audioContextRef' = 0

\* if (liveSessionRef.current) { liveSessionRef.current.close(); ... = null }
\* The close event of a session closed here arrives later.
CloseSessionRef ==
  /\ openSessions' = openSessions \ {liveSessionRef}
  /\ closingSessions' = closingSessions \cup ({liveSessionRef} \cap openSessions)
  /\ liveSessionRef' = 0

\* toggleRecording with isRecording false, up to the first await.  The record
\* button is disabled by isLoading only.  limit: how many Start clicks the
\* user makes at most.
ClickStart(limit) ==
  /\ ~isRecording
  /\ ~isLoading
  /\ startClicks < limit
  /\ startClicks' = startClicks + 1
  /\ uiError' = <<>>
  /\ translatedText' = <<>>
  /\ hasSpeechOutput' = FALSE
  /\ detectedSourceLanguage' = NullLanguage
  /\ currentInputTranscription' = <<>>
  /\ accumulatedTranscription' = <<>>
  /\ transcriptionHistory' = <<>>
  /\ turns' = << <<>> >>
  /\ starting' = starting \cup
       {[id |-> startClicks + 1, at |-> "mic", sawRecording |-> isRecording]}
  /\ lastEvent' = "clickStart"
  /\ UNCHANGED <<isRecording, isLoading, captureVars, sessionVars, messages,
                 pipeVars>>

\* getUserMedia resolves: the stream, the context and the processor of this
\* start are created and stored in the refs; then startLiveSession is awaited.
MicGranted(s) ==
  /\ s \in starting
  /\ s.at = "mic"
  /\ mediaStreamRef' = s.id
  /\ liveStreams' = liveStreams \cup {s.id}
  /\ audioContextRef' = s.id
  /\ openContexts' = openContexts \cup {s.id}
  /\ scriptProcessorRef' = s.id
  /\ liveProcessors' = liveProcessors \cup {s.id}
  /\ starting' = (starting \ {s}) \cup {[s EXCEPT !.at = "session"]}
  /\ lastEvent' = "micGranted"
  /\ UNCHANGED <<uiVars, sessionVars, transcriptVars, startClicks, pipeVars>>

\* getUserMedia or startLiveSession rejects with e: the catch block.
StartFails(s, e) ==
  /\ s \in starting
  /\ uiError' = StartErrorMessage(e)
  /\ ReleaseCapture
  /\ isRecording' = FALSE
  /\ starting' = starting \ {s}
  /\ lastEvent' = "startFailed"
  /\ UNCHANGED <<isLoading, translatedText, hasSpeechOutput,
                 detectedSourceLanguage, transcriptionHistory, sessionVars,
                 transcriptVars, startClicks, pipeVars>>

\* startLiveSession resolves: the session carries the handlers of the render
\* in which toggleRecording was called.
SessionOpened(s) ==
  /\ s \in starting
  /\ s.at = "session"
  /\ liveSessionRef' = s.id
  /\ openSessions' = openSessions \cup {s.id}
  /\ onclose' = [onclose EXCEPT ![s.id] = s.sawRecording]
  /\ isRecording' = TRUE
  /\ starting' = starting \ {s}
  /\ lastEvent' = "sessionOpened"
  /\ UNCHANGED <<isLoading, uiError, translatedText, hasSpeechOutput,
                 detectedSourceLanguage, transcriptionHistory, captureVars,
                 closingSessions, transcriptVars, startClicks, pipeVars>>

\* The log of one recording, from its Start click to the next Stop click:
\* the fragments received, turn by turn, the last turn being the open one.
\* The log is empty when no such recording is in progress.
Logged(log, msg) ==
  IF log = <<>> THEN log
  ELSE LET turn == IF msg.hasText
                   THEN Append(log[Len(log)], msg.text)
                   ELSE log[Len(log)]
           withText == [log EXCEPT ![Len(log)] = turn]
       IN IF msg.turnComplete THEN Append(withText, <<>>) ELSE withText

\* handleLiveMessage
LiveMessage(id, msg) ==
  /\ id \in openSessions
  /\ messages < MaxMessages
  /\ messages' = messages + 1
  /\ LET current == IF msg.hasText
                    THEN currentInputTranscription \o msg.text
                    ELSE currentInputTranscription
     IN /\ accumulatedTranscription' =
             IF msg.hasText THEN accumulatedTranscription \o msg.text
             ELSE accumulatedTranscription
        /\ IF msg.turnComplete
           THEN /\ transcriptionHistory' = FlushTurn(transcriptionHistory, current)
                /\ currentInputTranscription' = <<>>
           ELSE /\ currentInputTranscription' = current
                /\ UNCHANGED transcriptionHistory
  /\ turns' = Logged(turns, msg)
  /\ lastEvent' = "liveMessage"
  /\ UNCHANGED <<isRecording, isLoading, uiError, translatedText, hasSpeechOutput,
                 detectedSourceLanguage, captureVars, sessionVars, startVars,
                 pipeVars>>

\* handleLiveError
LiveError(id) ==
  /\ id \in openSessions
  /\ uiError' = LiveErrorMessage
  /\ isRecording' = FALSE
  /\ CloseSessionRef
  /\ lastEvent' = "liveError"
  /\ UNCHANGED <<isLoading, translatedText, hasSpeechOutput,
                 detectedSourceLanguage, transcriptionHistory, captureVars,
                 onclose, transcriptVars, startVars, pipeVars>>

\* handleLiveClose, as registered with session id: its isRecording is the
\* one of the render that created it.
LiveClose(id) ==
  /\ id \in openSessions \cup closingSessions
  /\ IF onclose[id]
     THEN /\ isRecording' = FALSE
          /\ uiError' = DisconnectedMessage
     ELSE UNCHANGED <<isRecording, uiError>>
  /\ liveSessionRef' = 0
  /\ openSessions' = openSessions \ {id}
  /\ closingSessions' = closingSessions \ {id}
  /\ lastEvent' = "liveClose"
  /\ UNCHANGED <<isLoading, translatedText, hasSpeechOutput,
                 detectedSourceLanguage, transcriptionHistory, captureVars,
                 onclose, transcriptVars, startVars, pipeVars>>

\* toggleRecording with isRecording true, up to await detectLanguage(...) or,
\* with nothing transcribed, to its end.
ClickStop ==
  /\ isRecording
  /\ ~isLoading
  /\ CloseSessionRef
  /\ ReleaseCapture
  /\ isRecording' = FALSE
  /\ StopAllAudioCall
  /\ currentInputTranscription' = <<>>
  /\ hasSpeechOutput' = FALSE
  /\ detectedSourceLanguage' = NullLanguage
  /\ accumulatedTranscription' = <<>>
  /\ IF Trim(accumulatedTranscription) # <<>>
     THEN /\ finalTranscription' = Trim(accumulatedTranscription)
          /\ isLoading' = TRUE
          /\ stage' = "detect"
          /\ UNCHANGED translatedText
     ELSE /\ translatedText' = <<>>
          /\ UNCHANGED <<finalTranscription, isLoading, stage>>
  /\ turns' = <<>>
  /\ lastEvent' = "clickStop"
  /\ UNCHANGED <<uiError, transcriptionHistory, onclose, messages,
                 startVars, translateArgs, detectResponse>>

\* Variant of the end of the stop pipeline: no finally block, isLoading is
\* left as it is.
PipelineReturnsStillLoading ==
  /\ UNCHANGED isLoading
  /\ stage' = "idle"
  /\ finalTranscription' = <<>>
  /\ translateArgs' = NoArgs
  /\ detectResponse' = NoResponse

\* The finally block of the stop pipeline, and the return of toggleRecording:
\* its locals are gone.
PipelineReturns ==
  /\ isLoading' = FALSE
  /\ stage' = "idle"
  /\ finalTranscription' = <<>>
  /\ translateArgs' = NoArgs
  /\ detectResponse' = NoResponse

\* The catch and finally blocks of the stop pipeline.
PipelineCatch(e, event) ==
  /\ uiError' = PipelineErrorMessage(e)
  /\ translatedText' = TranslationFailedText
  /\ PipelineReturns
  /\ lastEvent' = event

\* await detectLanguage(finalTranscription) settles; translateText is called.
DetectSettles(resp) ==
  /\ stage = "detect"
  /\ IF detectLanguage(resp).rejects
     THEN /\ PipelineCatch(ServerError, "detectFailed")
          /\ UNCHANGED detectedSourceLanguage
     ELSE /\ detectResponse' = resp
          /\ detectedSourceLanguage' = detectLanguage(resp).value
          /\ translateArgs' =
               [text |-> finalTranscription,
                code |-> SourceCodeArg(detectLanguage(resp).value)]
          /\ stage' = "translate"
          /\ lastEvent' = "detect"
          /\ UNCHANGED <<uiError, translatedText, isLoading, finalTranscription>>
  /\ UNCHANGED <<isRecording, hasSpeechOutput, transcriptionHistory,
                 captureVars, sessionVars, transcriptVars, startVars>>

\* await translateText(...) resolves; generateSpeech(translated) is called.
TranslateResolves(text) ==
  /\ stage = "translate"
  /\ translatedText' = text
  /\ hasSpeechOutput' = FALSE
  /\ stage' = "speech"
  /\ lastEvent' = "translate"
  /\ UNCHANGED <<isRecording, isLoading, uiError, detectedSourceLanguage,
                 transcriptionHistory, captureVars, sessionVars,
                 transcriptVars, startVars, finalTranscription, translateArgs,
                 detectResponse>>

\* Variant of the pipeline: the failure of translateText is handled on its
\* own, and generateSpeech is called with the failure text.
TranslateRejectsThenSpeaks(e) ==
  /\ stage = "translate"
  /\ uiError' = PipelineErrorMessage(e)
  /\ translatedText' = TranslationFailedText
  /\ stage' = "speech"
  /\ lastEvent' = "translateFailed"
  /\ UNCHANGED <<isRecording, isLoading, hasSpeechOutput,
                 detectedSourceLanguage, transcriptionHistory, captureVars,
                 sessionVars, transcriptVars, startVars, finalTranscription,
                 translateArgs, detectResponse>>

\* await translateText(...) rejects with what retry rethrew.
TranslateRejects(e) ==
  /\ stage = "translate"
  /\ PipelineCatch(e, "translateFailed")
  /\ UNCHANGED <<isRecording, hasSpeechOutput, detectedSourceLanguage,
                 transcriptionHistory, captureVars, sessionVars,
                 transcriptVars, startVars>>

\* generateSpeech returned '' for a blank text (if (!text.trim()) return ''):
\* the else branch appends the note; finally.
SpeechSkipped ==
  /\ stage = "speech"
  /\ Trim(translatedText) = <<>>
  /\ translatedText' = Append(translatedText, NoSpeechNote)
  /\ PipelineReturns
  /\ lastEvent' = "speechSkipped"
  /\ UNCHANGED <<isRecording, uiError, hasSpeechOutput, detectedSourceLanguage,
                 transcriptionHistory, captureVars, sessionVars,
                 transcriptVars, startVars>>

\* generateSpeech resolves with audio data; playAudio is called and runs up
\* to its await.
SpeechResolves(chunk) ==
  /\ stage = "speech"
  /\ Trim(translatedText) # <<>>
  /\ PlayAudioCall(chunk)
  /\ stage' = "play"
  /\ lastEvent' = "speech"
  /\ UNCHANGED <<uiVars, captureVars, sessionVars, transcriptVars, startVars,
                 finalTranscription, translateArgs, detectResponse>>

\* generateSpeech rejects with what retry rethrew.
SpeechRejects(e) ==
  /\ stage = "speech"
  /\ Trim(translatedText) # <<>>
  /\ PipelineCatch(e, "speechFailed")
  /\ UNCHANGED <<isRecording, hasSpeechOutput, detectedSourceLanguage,
                 transcriptionHistory, captureVars, sessionVars,
                 transcriptVars, startVars>>

\* await playAudio(...) resolves: setHasSpeechOutput(true); finally.
PlayResolves ==
  /\ stage = "play"
  /\ ~Head(pendingPlay).buffer.threw
  /\ PlayAudioResume
  /\ hasSpeechOutput' = TRUE
  /\ PipelineReturns
  /\ lastEvent' = "play"
  /\ UNCHANGED <<isRecording, uiError, translatedText, detectedSourceLanguage,
                 transcriptionHistory, captureVars, sessionVars,
                 transcriptVars, startVars>>

\* await playAudio(...) rejects (the audio cannot be decoded).
PlayRejects ==
  /\ stage = "play"
  /\ Head(pendingPlay).buffer.threw
  /\ PlayAudioResume
  /\ PipelineCatch(TypeError, "playFailed")
  /\ UNCHANGED <<isRecording, hasSpeechOutput, detectedSourceLanguage,
                 transcriptionHistory, captureVars, sessionVars,
                 transcriptVars, startVars>>

\* The steps of App other than the Start click.  The clock of the output context and the end of a
\* playback are steps of the playback scheduler (NextSched).
AppStep ==
  \/ \E s \in starting : MicGranted(s) /\ UNCHANGED notAppVars
  \/ \E s \in starting, e \in AppErrors : StartFails(s, e) /\ UNCHANGED notAppVars
  \/ \E s \in starting : SessionOpened(s) /\ UNCHANGED notAppVars
  \/ \E id \in openSessions, msg \in LiveMessages :
       LiveMessage(id, msg) /\ UNCHANGED notAppVars
  \/ \E id \in openSessions : LiveError(id) /\ UNCHANGED notAppVars
  \/ \E id \in openSessions \cup closingSessions :
       LiveClose(id) /\ UNCHANGED notAppVars
  \/ ClickStop /\ UNCHANGED <<retryVars, callerVars, codecVars, blockVars>>
  \/ \E resp \in DetectResponses : DetectSettles(resp) /\ UNCHANGED notAppVars
  \/ \E text \in Translations : TranslateResolves(text) /\ UNCHANGED notAppVars
  \/ \E e \in AppErrors : TranslateRejects(e) /\ UNCHANGED notAppVars
  \/ SpeechSkipped /\ UNCHANGED notAppVars
  \/ \E chunk \in SpeechChunks :
       SpeechResolves(chunk) /\ UNCHANGED <<retryVars, callerVars, codecVars, blockVars>>
  \/ \E e \in SpeechErrors : SpeechRejects(e) /\ UNCHANGED notAppVars
  \/ PlayResolves /\ UNCHANGED <<retryVars, callerVars, codecVars, blockVars>>
  \/ PlayRejects /\ UNCHANGED <<retryVars, callerVars, codecVars, blockVars>>

\* App with up to MaxStarts Start clicks, overlapping starts included.
NextApp ==
  \/ ClickStart(MaxStarts) /\ UNCHANGED notAppVars
  \/ AppStep

\* App with up to MaxRecordings Start clicks.
NextRecording ==
  \/ ClickStart(MaxRecordings) /\ UNCHANGED notAppVars
  \/ AppStep

(***************************************************************************)
(* retry as its caller sees it: the waits it goes through, and a caller    *)
(* that wants the invocation cancelled                                     *)
(***************************************************************************)
InitCaller ==
  /\ waits = <<>>
  /\ cancelled = FALSE

\* The catch block of retry, with the wait it starts (if any) recorded: the
\* delay the server suggested in this failure (0: none) and the timer armed.
FnRejectsThenWaits(e) ==
  /\ FnRejects(e)
  /\ waits' = IF rpc' = "sleeping"
              THEN Append(waits, [custom |-> customRetryDelay(e), ms |-> delay'])
              ELSE waits
  /\ UNCHANGED cancelled

\* The caller wants the invocation cancelled while it sleeps.  retry takes
\* (fn, maxRetries, initialDelayMs, factor, operationName) and nothing else,
\* and the timer's promise is settled by setTimeout alone: no variable of
\* the invocation changes.
CallerCancels ==
  /\ rpc = "sleeping"
  /\ ~cancelled
  /\ cancelled' = TRUE
  /\ UNCHANGED <<retryVars, schedVars, waits, appVars, codecVars,
               blockVars>>

NextRetryCaller ==
  \/ \E p \in Policies : RetryCall(p) /\ UNCHANGED notRetryVars
  \/ \E v \in Values : FnResolves(v) /\ UNCHANGED notRetryVars
  \/ \E e \in ErrorObjects(calls) \cup {NullError(calls)} :
       FnRejectsThenWaits(e)
         /\ UNCHANGED <<schedVars, appVars, codecVars, blockVars>>
  \/ TimerFires /\ UNCHANGED notRetryVars
  \/ CallerCancels

\* The errors of the fair specification: one status, and details that either
\* carry no RetryInfo or suggest 5 seconds; every code and message.
SettlingErrors(id) ==
  {e \in ErrorObjects(id) :
     /\ e.status = "undefined"
     /\ e.details.items \in {<<>>, <<RetryInfo(FormatSeconds(5))>>}}

\* A call of the operation settles.
FnSettles ==
  \/ \E v \in Values : FnResolves(v) /\ UNCHANGED notRetryVars
  \/ \E e \in SettlingErrors(calls) \cup {NullError(calls)} :
       FnRejects(e) /\ UNCHANGED notRetryVars

NextRetryFair ==
  \/ \E p \in Policies : RetryCall(p) /\ UNCHANGED notRetryVars
  \/ FnSettles
  \/ TimerFires /\ UNCHANGED notRetryVars

(***************************************************************************)
(* The stop pipeline with its remote calls made through retry              *)
(***************************************************************************)
\* retry(..., API_MAX_RETRIES, API_RETRY_INITIAL_DELAY_MS,
\* API_RETRY_BACKOFF_FACTOR, ...): the retry budget is MaxRetriesBound here.
PipelinePolicy ==
  [maxRetries |-> MaxRetriesBound,
   initialDelayMs |-> API_RETRY_INITIAL_DELAY_MS,
   factor |-> API_RETRY_BACKOFF_FACTOR]

\* What a remote call of the pipeline rejects with: a quota error (retried),
\* an internal error (fatal), null.
RemoteFailures(id) ==
  {e \in ErrorObjects(id) :
     /\ e.status = "undefined"
     /\ ~e.details.isArray
     /\ \/ e.hasCode /\ e.code = 429 /\ e.message = <<>>
        \/ e.hasCode /\ e.code = 500 /\ e.message = <<"Internal error">>}
    \cup {NullError(id)}

\* Session messages of the recording: a fragment with text, a blank one.
PipelineMessages ==
  {[hasText |-> TRUE, text |-> f, turnComplete |-> TRUE] : f \in Fragments}

\* What the call inside detectLanguage resolves with: a JSON text naming a
\* language, a response with no text.
RemoteDetected ==
  {r \in DetectResponses :
     \/ r.kind = "undefinedText"
     \/ r.kind = "json" /\ r.language = "Spanish" /\ r.code = "es"}

\* The stages whose await is on a function that calls retry.
RemoteStage ==
  \/ stage \in {"detect", "translate"}
  \/ stage = "speech" /\ Trim(translatedText) # <<>>

\* detectLanguage, translateText or generateSpeech calls retry.
RemoteCalled ==
  /\ RemoteStage
  /\ RetryCall(PipelinePolicy)
  /\ UNCHANGED notRetryVars

\* The remote call of the current attempt completes.
RemoteSettles ==
  /\ RemoteStage
  /\ \/ FnResolves("v1")
     \/ \E e \in RemoteFailures(calls) : FnRejects(e)
  /\ UNCHANGED notRetryVars

\* The backoff timer of retry fires.
BackoffTimerFires ==
  /\ RemoteStage
  /\ TimerFires
  /\ UNCHANGED notRetryVars

\* The invocation of retry is over.
RetryReturns ==
  /\ rpc' = "idle"
  /\ policy' = [maxRetries |-> 0, initialDelayMs |-> 0, factor |-> 0]
  /\ retries' = 0
  /\ delay' = 0
  /\ calls' = 0
  /\ fails' = 0
  /\ lastErr' = NoError
  /\ result' = NoResult

\* The promise of retry settles and the function awaiting it goes on: the
\* continuation of the pipeline, or its catch block.
RemoteReturns ==
  /\ rpc \in {"resolved", "rejected"}
  /\ RetryReturns
  /\ \/ /\ stage = "detect"
        /\ IF rpc = "resolved"
           THEN \E resp \in RemoteDetected : DetectSettles(resp)
           ELSE \E resp \in {r \in DetectResponses : r.kind = "rejected"} :
                  DetectSettles(resp)
        /\ UNCHANGED <<schedVars, callerVars, codecVars, blockVars>>
     \/ /\ stage = "translate"
        /\ IF rpc = "resolved"
           THEN \E text \in Translations : TranslateResolves(text)
           ELSE TranslateRejects(result.err)
        /\ UNCHANGED <<schedVars, callerVars, codecVars, blockVars>>
     \/ /\ stage = "speech"
        /\ IF rpc = "resolved"
           THEN /\ \E chunk \in SpeechChunks : SpeechResolves(chunk)
                /\ UNCHANGED <<callerVars, codecVars, blockVars>>
           ELSE /\ SpeechRejects(result.err)
                /\ UNCHANGED <<schedVars, callerVars, codecVars, blockVars>>

\* await playAudio(...) settles.
PlaySettles ==
  /\ PlayResolves \/ PlayRejects
  /\ UNCHANGED <<retryVars, callerVars, codecVars, blockVars>>

\* Recordings started one after the other, each with its stop pipeline.
NextPipeline ==
  \/ starting = {} /\ ClickStart(MaxRecordings) /\ UNCHANGED notAppVars
  \/ \E s \in starting : MicGranted(s) /\ UNCHANGED notAppVars
  \/ \E s \in starting : SessionOpened(s) /\ UNCHANGED notAppVars
  \/ \E id \in openSessions, msg \in PipelineMessages :
       LiveMessage(id, msg) /\ UNCHANGED notAppVars
  \/ \E id \in openSessions \cup closingSessions :
       LiveClose(id) /\ UNCHANGED notAppVars
  \/ ClickStop /\ UNCHANGED <<retryVars, callerVars, codecVars, blockVars>>
  \/ RemoteCalled
  \/ RemoteSettles
  \/ BackoffTimerFires
  \/ RemoteReturns
  \/ SpeechSkipped /\ UNCHANGED notAppVars
  \/ PlaySettles

(***************************************************************************)
(* The onaudioprocess handler of the ScriptProcessorNodes                  *)
(***************************************************************************)
InitBlocks ==
  /\ captured = 0
  /\ forwarded = <<>>

\* Variant of the handler: liveSessionRef.current.sendRealtimeInput(...) with
\* the call recorded whatever the ref holds.
ForwardedWhateverTheRef(calls_, block, session) ==
  Append(calls_, [block |-> block, session |-> session])

\* liveSessionRef.current?.sendRealtimeInput({ media: pcmBlob }): the calls
\* made so far, once the handler has run for block with the ref at session.
Forwarded(calls_, block, session) ==
  IF session # 0
  THEN Append(calls_, [block |-> block, session |-> session])
  ELSE calls_

\* An audioprocess event of node p: the handler runs to its end, no await in
\* it.  The blob is createPcmBlob of the block, which stands for it here.
AudioProcess(p) ==
  /\ p \in liveProcessors
  /\ captured < MaxBlocks
  /\ captured' = captured + 1
  /\ forwarded' = Forwarded(forwarded, captured + 1, liveSessionRef)
  /\ UNCHANGED <<retryVars, schedVars, callerVars, appVars, codecVars>>

\* The inputs of the recording the capture is followed through: one message
\* of the session, one answer of each remote call.
CaptureMessage == [hasText |-> TRUE, text |-> <<"a", " ">>, turnComplete |-> TRUE]
CaptureDetected == [kind |-> "json", language |-> "Spanish", code |-> "es"]
CaptureTranslation == <<"h", "o", "l", "a">>

\* App with up to MaxRecordings Start clicks, and the nodes' events.
NextCapture ==
  \/ ClickStart(MaxRecordings) /\ UNCHANGED notAppVars
  \/ \E s \in starting : MicGranted(s) /\ UNCHANGED notAppVars
  \/ \E s \in starting : StartFails(s, BareError) /\ UNCHANGED notAppVars
  \/ \E s \in starting : SessionOpened(s) /\ UNCHANGED notAppVars
  \/ \E id \in openSessions :
       LiveMessage(id, CaptureMessage) /\ UNCHANGED notAppVars
  \/ \E id \in openSessions : LiveError(id) /\ UNCHANGED notAppVars
  \/ \E id \in openSessions \cup closingSessions :
       LiveClose(id) /\ UNCHANGED notAppVars
  \/ ClickStop /\ UNCHANGED <<retryVars, callerVars, codecVars, blockVars>>
  \/ DetectSettles(CaptureDetected) /\ UNCHANGED notAppVars
  \/ TranslateResolves(CaptureTranslation) /\ UNCHANGED notAppVars
  \/ \E chunk \in SpeechChunks :
       SpeechResolves(chunk) /\ UNCHANGED <<retryVars, callerVars, codecVars, blockVars>>
  \/ PlayResolves /\ UNCHANGED <<retryVars, callerVars, codecVars, blockVars>>
  \/ PlayRejects /\ UNCHANGED <<retryVars, callerVars, codecVars, blockVars>>
  \/ \E p \in liveProcessors : AudioProcess(p)

(***************************************************************************)
(* The sample conversions: createPcmBlob, encode / decode (base64),        *)
(* decodeAudioData, floatTo16BitPCM and encodeWAV                          *)
(*                                                                         *)
(* A Float32 sample x is the integer x * SampleUnit: SampleUnit parts make *)
(* 1.0 and two parts make one 16-bit step (1/32768), so the samples drawn  *)
(* lie on and between the 16-bit values.  Bytes are integers 0..255.       *)
(***************************************************************************)
FullScale == 32768
SampleUnit == 2 * FullScale

\* a / b with the fraction dropped (toward zero), as the integer conversion
\* of a typed array or of DataView.setInt16 drops it.
TruncDiv(a, b) == IF a >= 0 THEN a \div b ELSE -((-a) \div b)

\* The 16-bit two's complement value an integer is stored as (modulo 2^16).
ToInt16(v) ==
  LET m == v % 65536 IN IF m >= FullScale THEN m - 65536 ELSE m

\* The two bytes of a 16-bit value, low byte first.
Int16Bytes(v) == LET u == v % 65536 IN <<u % 256, u \div 256>>

\* The Int16Array element over two bytes, low byte first.
BytesInt16(lo, hi) == ToInt16(lo + 256 * hi)

\* The product x * 32768 of the sample x, fraction dropped.
TimesFullScale(x) == TruncDiv(x, SampleUnit \div FullScale)

\* Variant of the scaling of a non-negative sample: s * 0x8000.
PositiveTimes8000(x) == TruncDiv(x, SampleUnit \div FullScale)

\* The product s * 0x7FFF of the sample s, fraction dropped.
Times7FFF(x) == TruncDiv(x * (FullScale - 1), SampleUnit)

\* The sample int16 / 32768.0.
Int16ToFloat(v) == v * (SampleUnit \div FullScale)

\* The padding character '=' among the 6-bit digits 0..63 of base64.
B64Pad == 64

\* encode: btoa of the bytes, as 6-bit digits.
RECURSIVE encode(_)
encode(bytes) ==
  IF bytes = <<>> THEN <<>>
  ELSE IF Len(bytes) = 1
  THEN <<bytes[1] \div 4, (bytes[1] % 4) * 16, B64Pad, B64Pad>>
  ELSE IF Len(bytes) = 2
  THEN <<bytes[1] \div 4, (bytes[1] % 4) * 16 + bytes[2] \div 16,
         (bytes[2] % 16) * 4, B64Pad>>
  ELSE <<bytes[1] \div 4, (bytes[1] % 4) * 16 + bytes[2] \div 16,
         (bytes[2] % 16) * 4 + bytes[3] \div 64, bytes[3] % 64>>
         \o encode(SubSeq(bytes, 4, Len(bytes)))

\* decode: the char codes of atob of well-formed base64.
RECURSIVE decode(_)
decode(base64) ==
  IF base64 = <<>> THEN <<>>
  ELSE LET q == SubSeq(base64, 1, 4)
           b1 == q[1] * 4 + q[2] \div 16
       IN IF q[3] = B64Pad THEN <<b1>>
          ELSE IF q[4] = B64Pad
          THEN <<b1, (q[2] % 16) * 16 + q[3] \div 4>>
          ELSE <<b1, (q[2] % 16) * 16 + q[3] \div 4, (q[3] % 4) * 64 + q[4]>>
                 \o decode(SubSeq(base64, 5, Len(base64)))

RECURSIVE FlatBytes(_)
\* The bytes of an Int16Array's buffer (little-endian platform).
FlatBytes(int16) ==
  IF int16 = <<>> THEN <<>>
  ELSE Int16Bytes(Head(int16)) \o FlatBytes(Tail(int16))

\* createPcmBlob: int16[i] = data[i] * 32768; data: encode(bytes of int16).
createPcmBlob(data) ==
  encode(FlatBytes([i \in 1..Len(data) |-> ToInt16(TimesFullScale(data[i]))]))

NoBuffer == <<>>

\* decodeAudioData(data, ctx, sampleRate, numChannels).  new Int16Array throws
\* a RangeError on an odd byte length; frameCount = length / numChannels may
\* be fractional, createBuffer converts it to an unsigned long (fraction
\* dropped) and throws NotSupportedError when that is 0; writes past the end
\* of a channel are ignored.
decodeAudioData(data, sampleRate, numChannels) ==
  IF Len(data) % 2 # 0
  THEN [threw |-> TRUE, error |-> "RangeError", numberOfChannels |-> 0,
        sampleRate |-> 0, channels |-> NoBuffer]
  ELSE LET dataInt16 ==
             [i \in 1..(Len(data) \div 2) |->
                BytesInt16(data[2 * i - 1], data[2 * i])]
           length == Len(dataInt16) \div numChannels
       IN IF length = 0
          THEN [threw |-> TRUE, error |-> "NotSupportedError",
                numberOfChannels |-> 0, sampleRate |-> 0, channels |-> NoBuffer]
          ELSE [threw |-> FALSE, error |-> "none",
                numberOfChannels |-> numChannels, sampleRate |-> sampleRate,
                channels |->
                  [c \in 1..numChannels |->
                     [i \in 1..length |->
                        Int16ToFloat(dataInt16[(i - 1) * numChannels + c])]]]

\* Math.max(-1, Math.min(1, x))
Clamp(x) == Max(0 - SampleUnit, IF x <= SampleUnit THEN x ELSE SampleUnit)

\* The 16-bit value floatTo16BitPCM writes for one sample.
PcmValue(x) ==
  LET s == Clamp(x)
  IN ToInt16(IF s < 0 THEN TimesFullScale(s) ELSE Times7FFF(s))

\* floatTo16BitPCM(output, offset, input): the bytes written from offset on.
floatTo16BitPCM(input) ==
  FlatBytes([i \in 1..Len(input) |-> PcmValue(input[i])])

\* writeString: the char codes of 'RIFF', 'WAVE', 'fmt ' and 'data'.
RIFF == <<82, 73, 70, 70>>
WAVE == <<87, 65, 86, 69>>
FMT == <<102, 109, 116, 32>>
DATA == <<100, 97, 116, 97>>

\* Variant of setUint32(offset, value, true): the littleEndian flag left out.
U32BE(v) ==
  <<(v \div 16777216) % 256, (v \div 65536) % 256, (v \div 256) % 256, v % 256>>

\* view.setUint32(offset, value, true)
U32LE(v) ==
  <<v % 256, (v \div 256) % 256, (v \div 65536) % 256, (v \div 16777216) % 256>>

\* view.setUint16(offset, value, true)
U16LE(v) == <<v % 256, (v \div 256) % 256>>

\* encodeWAV(audioBuffer): the bytes of the Blob.
encodeWAV(audioBuffer) ==
  LET numChannels == audioBuffer.numberOfChannels
      sampleRate == audioBuffer.sampleRate
      samples == audioBuffer.channels[1]
      dataLength == Len(samples) * 2
  IN RIFF \o U32LE(36 + dataLength) \o WAVE \o FMT \o U32LE(16) \o U16LE(1)
       \o U16LE(numChannels) \o U32LE(sampleRate)
       \o U32LE(sampleRate * numChannels * 2) \o U16LE(numChannels * 2)
       \o U16LE(16) \o DATA \o U32LE(dataLength)
       \o floatTo16BitPCM(samples)

\* Sequences of at most n elements of a set.
SeqsUpTo(S, n) == UNION {[1..k -> S] : k \in 0..n}

\* Samples drawn: the ends of [-1, 1], their neighbours, values between two
\* 16-bit steps around 0, and values beyond the range.
SampleValues ==
  {0 - SampleUnit, 1 - SampleUnit, -3, -1, 0, 1, 3, SampleUnit - 1, SampleUnit,
   0 - (3 * FullScale), 3 * FullScale}

ByteValues == {1, 128, 255}

SampleRates == {LIVE_AUDIO_SAMPLE_RATE, TTS_AUDIO_SAMPLE_RATE}

\* The inputs drawn: a Float32Array, or a Uint8Array.
CodecInputs ==
  {[kind |-> "floats", floats |-> f, bytes |-> <<>>] :
     f \in SeqsUpTo(SampleValues, MaxSamples)}
    \cup {[kind |-> "bytes", floats |-> <<>>, bytes |-> b] :
            b \in SeqsUpTo(ByteValues, MaxPcmBytes)}

NoCodecInput == [kind |-> "none", floats |-> <<>>, bytes |-> <<>>]

NoCodecOutput ==
  [op |-> "none", numChannels |-> 0, data |-> <<>>,
   buffer |-> [threw |-> FALSE, error |-> "none", numberOfChannels |-> 0,
               sampleRate |-> 0, channels |-> NoBuffer]]

InitCodec ==
  /\ codecIn = NoCodecInput
  /\ codecOut = NoCodecOutput

\* An AudioBuffer whose channels all hold the samples given.
AudioBufferOf(floats, sampleRate, numChannels) ==
  [threw |-> FALSE, error |-> "none", numberOfChannels |-> numChannels,
   sampleRate |-> sampleRate, channels |-> [c \in 1..numChannels |-> floats]]

\* createPcmBlob(inputData) on the samples drawn.
CreatePcmBlobCall ==
  /\ codecIn.kind = "floats"
  /\ codecOut.op = "none"
  /\ codecOut' = [NoCodecOutput EXCEPT !.op = "createPcmBlob",
                                       !.data = createPcmBlob(codecIn.floats)]
  /\ UNCHANGED codecIn

\* The blob goes through decode and decodeAudioData, at the capture rate
\* and with one channel.
DecodeBlobCall ==
  /\ codecOut.op = "createPcmBlob"
  /\ codecOut' =
       [NoCodecOutput EXCEPT
          !.op = "roundTrip",
          !.numChannels = 1,
          !.buffer = decodeAudioData(decode(codecOut.data),
                                     LIVE_AUDIO_SAMPLE_RATE, 1)]
  /\ UNCHANGED codecIn

\* decodeAudioData on the bytes drawn.
DecodeAudioDataCall(numChannels) ==
  /\ codecIn.kind = "bytes"
  /\ codecOut.op = "none"
  /\ codecOut' =
       [NoCodecOutput EXCEPT
          !.op = "decodeAudioData",
          !.numChannels = numChannels,
          !.buffer = decodeAudioData(codecIn.bytes, TTS_AUDIO_SAMPLE_RATE,
                                     numChannels)]
  /\ UNCHANGED codecIn

\* encodeWAV on an AudioBuffer holding the samples drawn.
EncodeWAVCall(sampleRate, numChannels) ==
  /\ codecIn.kind = "floats"
  /\ codecIn.floats # <<>>
  /\ codecOut.op = "none"
  /\ codecOut' =
       [op |-> "encodeWAV",
        numChannels |-> numChannels,
        data |-> encodeWAV(AudioBufferOf(codecIn.floats, sampleRate, numChannels)),
        buffer |-> AudioBufferOf(codecIn.floats, sampleRate, numChannels)]
  /\ UNCHANGED codecIn

NextCodec ==
  \/ CreatePcmBlobCall /\ UNCHANGED notCodecVars
  \/ DecodeBlobCall /\ UNCHANGED notCodecVars
  \/ \E numChannels \in 1..MaxChannels :
       DecodeAudioDataCall(numChannels) /\ UNCHANGED notCodecVars
  \/ \E sampleRate \in SampleRates, numChannels \in 1..MaxChannels :
       EncodeWAVCall(sampleRate, numChannels) /\ UNCHANGED notCodecVars

\* The conversions start from any of the inputs drawn.
InitCodecInputs ==
  /\ InitRetry /\ InitSched /\ InitCaller /\ InitApp /\ InitBlocks
  /\ codecIn \in CodecInputs
  /\ codecOut = NoCodecOutput

Init ==
  InitRetry /\ InitSched /\ InitCaller /\ InitApp /\ InitCodec /\ InitBlocks

SpecRetry == Init /\ [][NextRetry]_vars

SpecApp == Init /\ [][NextApp]_vars

SpecRecording == Init /\ [][NextRecording]_vars

SpecRetryCaller == Init /\ [][NextRetryCaller]_vars

\* Each call of the operation settles, and each backoff timer fires.
SpecRetryFair ==
  /\ Init
  /\ [][NextRetryFair]_vars
  /\ WF_vars(FnSettles)
  /\ WF_vars(TimerFires /\ UNCHANGED notRetryVars)

SpecSched == Init /\ [][NextSched]_vars

SpecCodec == InitCodecInputs /\ [][NextCodec]_vars

SpecCapture == Init /\ [][NextCapture]_vars

\* Each remote call completes, each backoff timer fires, and a function
\* whose await has settled goes on.
SpecPipelineFair ==
  /\ Init
  /\ [][NextPipeline]_vars
  /\ WF_vars(RemoteCalled)
  /\ WF_vars(RemoteSettles)
  /\ WF_vars(BackoffTimerFires)
  /\ WF_vars(RemoteReturns)
  /\ WF_vars(SpeechSkipped /\ UNCHANGED notAppVars)
  /\ WF_vars(PlaySettles)

\* A suspended playAudio call resumes, the clock of a running context
\* advances, and the 'ended' event of a finished source is delivered.
SpecSchedFair ==
  /\ Init
  /\ [][NextSchedFair]_vars
  /\ WF_vars(PlayAudioResume /\ UNCHANGED notSchedVars)
  /\ WF_vars(ClockRuns /\ UNCHANGED notSchedVars)
  /\ WF_vars(SourcesEnd)

(***************************************************************************)
(* Claims about retry                                                      *)
(***************************************************************************)
\* The last failure was classified (it was an object, not null).
Classified == fails > 0 /\ ~lastErr.isNull

\* C1: retry invokes the operation at most maxRetries + 1 times; once
\* maxRetries retries have been performed, the next failure ends the
\* invocation instead of triggering another attempt.
C1_AtMostMaxRetriesPlusOneCalls ==
  /\ calls <= policy.maxRetries + 1
  /\ retries <= policy.maxRetries
  /\ (fails > policy.maxRetries => rpc = "rejected")

C1_Witness ==
  /\ rpc = "rejected"
  /\ policy.maxRetries = 2
  /\ calls = 3
  /\ retries = 2
  /\ Classified /\ isRetryableError(lastErr)

\* C2: an operation that fails k times with retryable errors and then
\* succeeds makes retry resolve after k + 1 invocations when k <= maxRetries;
\* when more than maxRetries retryable failures come first, retry rejects
\* after maxRetries + 1 invocations with the very object the last invocation
\* raised, all fields unchanged.
C2_CountsAndLastErrorUnchanged ==
  /\ (rpc = "resolved"
        => (/\ fails <= policy.maxRetries
            /\ calls = fails + 1
            /\ result.kind = "value" /\ result.val \in Values))
  /\ ((rpc = "rejected" /\ Classified /\ isRetryableError(lastErr))
        => (/\ fails = policy.maxRetries + 1
            /\ calls = policy.maxRetries + 1
            /\ lastErr.id = calls
            /\ result = [kind |-> "error", err |-> lastErr, val |-> "none"]))

C2_Witness ==
  /\ rpc = "rejected"
  /\ policy.maxRetries = 1
  /\ fails = 2 /\ calls = 2
  /\ Classified /\ isRetryableError(lastErr)
  /\ lastErr.hasCode /\ lastErr.code = 429
  /\ lastErr.details.isArray /\ lastErr.message # <<>>
  /\ result.err = lastErr

\* C3: a failure classified fatal makes retry reject at once with that same
\* error object: no further invocation, no backoff delay, whatever the retry
\* count; and a rejected invocation stays rejected with that error.
C3_FatalRejectsImmediately ==
  [][((rpc = "attempting" /\ fails' = fails + 1
         /\ ~lastErr'.isNull /\ ~isRetryableError(lastErr'))
        => (/\ rpc' = "rejected"
            /\ result' = [kind |-> "error", err |-> lastErr', val |-> "none"]
            /\ lastErr'.id = calls
            /\ calls' = calls /\ retries' = retries /\ delay' = delay))
     /\ (rpc = "rejected"
           => (rpc' = "rejected" /\ calls' = calls /\ result' = result))]_vars

C3_Witness ==
  /\ rpc = "rejected"
  /\ Classified /\ ~isRetryableError(lastErr)
  /\ retries = 1 /\ calls = 2 /\ policy.maxRetries = 2
  /\ result.err = lastErr

\* The error carries a RetryInfo detail suggesting a delay of d whole seconds.
CarriesSuggestedDelay(error, d) ==
  /\ error.details.isArray
  /\ \E i \in 1..Len(error.details.items) :
       error.details.items[i] = RetryInfo(FormatSeconds(d))

\* C4: when a retryable failure carries a server-suggested delay of d > 0
\* whole seconds, the wait before the next attempt is exactly d seconds,
\* whatever initialDelayMs, factor and the number of retries so far.
C4_ServerDelayUsedVerbatim ==
  \A d \in SuggestedSeconds :
    (d > 0 /\ rpc = "sleeping" /\ CarriesSuggestedDelay(lastErr, d))
      => delay = d * 1000

C4_Witness ==
  /\ rpc = "sleeping"
  /\ retries = 2
  /\ CarriesSuggestedDelay(lastErr, 12)
  /\ delay = 12000
  /\ policy.initialDelayMs = 500 /\ policy.factor = 3

\* The classification C5 states: a transient status (code 503 or 429, or the
\* status string RESOURCE_EXHAUSTED) or a transient marker in the message.
TransientAsStated(error) ==
  \/ (error.hasCode /\ (error.code = 503 \/ error.code = 429))
  \/ error.status = "RESOURCE_EXHAUSTED"
  \/ Includes(error.message, OverloadedMarker)
  \/ Includes(error.message, NoAudioMarker)

\* C5: an error is retried exactly when it is transient as stated (a
\* transient status, the status string RESOURCE_EXHAUSTED alone included, or
\* a transient marker in its message); every other error is fatal.
C5_ClassifierAsStated ==
  /\ (rpc = "sleeping" => TransientAsStated(lastErr))
  /\ (rpc = "rejected" /\ Classified /\ fails <= policy.maxRetries)
        => ~TransientAsStated(lastErr)

(***************************************************************************)
(* Claims about the playback scheduler                                     *)
(***************************************************************************)
\* End of the output of a started source.
EndOf(src) == src.begins + src.frames

\* No stopAllAudio ran between the call that made source i and the start of
\* source j.
NoStopBetween(i, j) ==
  /\ started[i].stopsAtCall = started[i].stopsAtStart
  /\ started[i].stopsAtStart = started[j].stopsAtCall
  /\ started[j].stopsAtCall = started[j].stopsAtStart

\* C6: with no stopAllAudio in between, whatever the interleaving at the
\* decode await and the advance of the device clock, each chunk begins no
\* earlier than the end of the chunk started before it, and exactly at that
\* end when the device clock has not passed it.
C6_NoOverlapZeroGap ==
  \A i \in 1..(Len(started) - 1) :
    NoStopBetween(i, i + 1) =>
      /\ started[i + 1].begins >= EndOf(started[i])
      /\ (started[i + 1].clockAtStart <= EndOf(started[i])
            => started[i + 1].begins = EndOf(started[i]))

\* C7: after stopAllAudio returns, from any scheduler state, the cursor is 0,
\* the active set is empty and every source that was active has been stopped.
C7_StopAllResets ==
  [][stops' = stops + 1 =>
       (/\ nextStartTime' = 0
        /\ audioSources' = {}
        /\ audioSources \subseteq halted'
        /\ halted \subseteq halted')]_vars

C7_Witness ==
  /\ stops = 1
  /\ Cardinality(halted) = 2
  /\ audioSources = {}
  /\ nextStartTime = 0
  /\ pendingPlay = <<>>
  /\ Len(started) = 3

\* C8: stopAllAudio cannot take effect between a playAudio call's clamp of the
\* cursor and its insertion of the source: no chunk whose call began before a
\* stopAllAudio is started after it, and after a stopAllAudio the cursor
\* leaves 0 only through a playAudio call that began after it.
C8_StopExcludesSuspendedPlay ==
  /\ [](\A i \in 1..Len(started) :
          started[i].stopsAtCall = started[i].stopsAtStart)
  /\ [][(stops > 0 /\ nextStartTime = 0 /\ nextStartTime' # 0) =>
          \/ playCalls' = playCalls + 1
          \/ (pendingPlay # <<>> /\ Head(pendingPlay).stopsAtCall = stops)]_vars

\* The step is a playAudio call whose chunk cannot be decoded, up to its await.
BeginsUndecodable ==
  /\ Len(pendingPlay') = Len(pendingPlay) + 1
  /\ pendingPlay'[Len(pendingPlay')].buffer.threw

\* The step resumes a playAudio call whose chunk could not be decoded.
FailsUndecodable ==
  /\ pendingPlay # <<>>
  /\ pendingPlay' = Tail(pendingPlay)
  /\ Head(pendingPlay).buffer.threw

\* C9: a playAudio call that fails because its chunk cannot be decoded throws
\* to its caller and leaves the cursor and the active set as they were before
\* the call.
C9_DecodeFailureLeavesState ==
  [][/\ (BeginsUndecodable \/ FailsUndecodable) =>
          (nextStartTime' = nextStartTime /\ audioSources' = audioSources)
     /\ FailsUndecodable => playRet' = "threw"]_vars

RECURSIVE SumFrames(_)
SumFrames(srcs) ==
  IF srcs = <<>> THEN 0 ELSE Head(srcs).frames + SumFrames(Tail(srcs))

\* Two started sources whose output intervals intersect.
Overlap(a, b) == a.begins < EndOf(b) /\ b.begins < EndOf(a)

\* C10: from the initial state, with the device clock never advancing and no
\* stopAllAudio, once N chunks of d1..dN frames are scheduled the cursor is
\* d1 + ... + dN and no two scheduled sources overlap.
C10_CursorIsSumOfDurations ==
  (currentTime = 0 /\ stops = 0 /\ pendingPlay = <<>>) =>
    /\ nextStartTime = SumFrames(started)
    /\ \A i, j \in 1..Len(started) :
         i # j => ~Overlap(started[i], started[j])

C10_Witness ==
  /\ currentTime = 0 /\ stops = 0 /\ pendingPlay = <<>>
  /\ Len(started) = 3
  /\ started[1].frames = 1 /\ started[2].frames = 2 /\ started[3].frames = 2
  /\ nextStartTime = 5
  /\ Cardinality(audioSources) = 3

(***************************************************************************)
(* Claims about cancellation, termination and the backoff sequence         *)
(***************************************************************************)
\* C13: once the caller has cancelled an invocation suspended in a backoff
\* delay, the operation is not invoked again, and the invocation does not
\* stay waiting for the timer: it is over at the cancellation.
C13_CancelEndsInvocation ==
  /\ [][cancelled => calls' = calls]_vars
  /\ [](cancelled => rpc \in {"resolved", "rejected"})

Terminal == {"resolved", "rejected"}

\* The transitions of the retry state machine: Attempting -> Success,
\* Attempting -> Failed, Attempting -> (retryable, delay) -> Attempting, the
\* retry counter growing by one on each round and never beyond maxRetries.
Edges ==
  {<<"idle", "attempting">>, <<"attempting", "resolved">>,
   <<"attempting", "rejected">>, <<"attempting", "sleeping">>,
   <<"sleeping", "attempting">>}

EdgeTaken ==
  /\ rpc' # rpc => <<rpc, rpc'>> \in Edges
  /\ (rpc = "attempting" /\ rpc' = "sleeping") =>
       (/\ retries' = retries + 1
        /\ retries' <= policy.maxRetries
        /\ isRetryableError(lastErr'))
  /\ rpc \in Terminal => (rpc' = rpc /\ result' = result)

\* C14: when every call of the operation settles and every backoff timer
\* fires, an invocation of retry reaches Success (resolved) or Failed
\* (rejected); it moves only along the edges of the state machine and never
\* leaves a terminal state.
C14_RetryTerminates ==
  /\ (rpc = "attempting") ~> (rpc \in Terminal)
  /\ [][EdgeTaken]_vars

\* Witness of C14: an invocation that went twice around the retry loop and
\* then ended in Failed.
C14_Witness ==
  /\ rpc = "rejected"
  /\ retries = 2
  /\ calls = 3
  /\ isRetryableError(lastErr)

RECURSIVE Pow(_, _)
Pow(b, n) == IF n = 0 THEN 1 ELSE b * Pow(b, n - 1)

\* No failed attempt of the invocation carried a server-suggested delay.
NoSuggestedDelay == \A i \in 1..Len(waits) : waits[i].custom = 0

\* C15: when no failed attempt carries a server-suggested delay, the wait
\* before the first retry is initialDelayMs and the wait before the n-th
\* retry is initialDelayMs * factor^(n-1).
C15_FirstWaitIsInitialDelay ==
  NoSuggestedDelay =>
    \A n \in 1..Len(waits) :
      waits[n].ms = policy.initialDelayMs * Pow(policy.factor, n - 1)

(***************************************************************************)
(* Claims about stopAllAudio called twice, or with nothing playing         *)
(***************************************************************************)
\* C19: stopAllAudio is idempotent: in the state a stopAllAudio leaves, a
\* second stopAllAudio changes neither the cursor nor the active set, and
\* calls stop() on no handle.
C19_StopTwiceIsStopOnce ==
  [][stops' = stops + 1 =>
       (/\ StopEach(audioSources', halted').sources = audioSources'
        /\ StopEach(audioSources', halted').halted = halted'
        /\ StopEach(audioSources', {}).halted = {}
        /\ CursorAfterStop(nextStartTime', audioSources') = nextStartTime')]_vars

\* Witness of C19: a stopAllAudio that halted two playing sources.
C19_Witness ==
  /\ stops >= 1
  /\ Cardinality(halted) >= 2
  /\ audioSources = {}
  /\ nextStartTime = 0

\* Every source started so far has finished playing on its own.
AllPlayedOut ==
  /\ Len(started) >= 1
  /\ audioSources = {}
  /\ halted = {}

\* C20 as stated: stopAllAudio with an empty active set is a no-op: the
\* active set stays empty and the cursor keeps its value.
C20_StopOnEmptyKeepsCursor ==
  [][(stops' = stops + 1 /\ audioSources = {}) =>
       (audioSources' = {} /\ nextStartTime' = nextStartTime)]_vars

\* C20 amended: stopAllAudio with an empty active set leaves the set empty,
\* calls stop() on no handle, and sets the cursor to 0 whatever value it had.
C20_StopOnEmptyResetsCursor ==
  [][(stops' = stops + 1 /\ audioSources = {}) =>
       (audioSources' = {} /\ halted' = halted /\ nextStartTime' = 0)]_vars

\* Witness of C20: stopAllAudio was called after every scheduled chunk had
\* finished playing (the cursor stood at the end of the last one).
C20_Witness ==
  /\ stops = 1
  /\ AllPlayedOut
  /\ \A i \in 1..Len(started) : started[i].stopsAtStart = 0
  /\ pendingPlay = <<>>
  /\ nextStartTime = 0

(***************************************************************************)
(* Claims about App: session events, capture pipelines, the transcript and *)
(* the stop pipeline                                                       *)
(***************************************************************************)
ReconnectMessages == {LiveErrorMessage, DisconnectedMessage}

\* C11: whenever the error handler or the close handler registered with a
\* session runs while a recording is active, the app is afterwards in the
\* reconnect-required state: isRecording is false, the session reference
\* is cleared, and an error message asking to reconnect is set.
C11_SessionEventRequiresReconnect ==
  [][(isRecording /\ lastEvent' \in {"liveError", "liveClose"}) =>
       (/\ ~isRecording'
        /\ liveSessionRef' = 0
        /\ uiError' \in ReconnectMessages)]_vars

\* C12: at most one capture pipeline (microphone stream and sample-block
\* processor) is live at any time, so at most one processor feeds blocks to
\* the current session.
C12_OneCapturePipeline ==
  /\ Cardinality(liveStreams) <= 1
  /\ Cardinality(liveProcessors) <= 1

PipelineFailures == {"translateFailed", "speechFailed", "playFailed"}

\* C16: when the stop pipeline fails terminally in translation or speech
\* synthesis, an error message is set, and neither the Stop click nor the
\* failure handling changes the transcription history of the recording.
C16_FailureKeepsHistory ==
  [][/\ (stage # "idle" /\ stage' = "idle" /\ lastEvent' \in PipelineFailures) =>
          (uiError' # <<>> /\ transcriptionHistory' = transcriptionHistory
             /\ ~isLoading')
     /\ (lastEvent' = "clickStop" /\ isRecording) =>
          transcriptionHistory' = transcriptionHistory]_vars

\* Witness of C16: speech synthesis failed terminally after a recording whose
\* history has an entry.
C16_Witness ==
  /\ lastEvent = "speechFailed"
  /\ Len(transcriptionHistory) >= 1
  /\ uiError # <<>>

RECURSIVE Concat(_)
Concat(frags) ==
  IF frags = <<>> THEN <<>> ELSE Head(frags) \o Concat(Tail(frags))

RECURSIVE TurnEntries(_)
\* The history entries of a sequence of completed turns: the trimmed
\* concatenation of each turn's fragments, where that is not empty.
TurnEntries(done) ==
  IF done = <<>> THEN <<>>
  ELSE LET entry == Trim(Concat(Head(done)))
       IN (IF entry = <<>> THEN <<>> ELSE <<entry>>) \o TurnEntries(Tail(done))

\* C17: in one recording (from its Start click to the next Stop click) the
\* history holds, in order, one entry per completed turn whose trimmed
\* concatenation of fragments is not empty; the per-turn buffer is the
\* concatenation of the fragments since the last turn boundary (empty right
\* after one); the session-wide transcript is the concatenation of all
\* fragments since Start, turn boundaries or not.
C17_TranscriptFollowsFragments ==
  turns # <<>> =>
    (/\ transcriptionHistory = TurnEntries(SubSeq(turns, 1, Len(turns) - 1))
     /\ currentInputTranscription = Concat(turns[Len(turns)])
     /\ accumulatedTranscription = Concat(Concat(turns)))

\* Witness of C17: a turn boundary with fragments on both sides of it, the
\* first turn flushed to the history with its blanks trimmed.
C17_Witness ==
  /\ isRecording
  /\ Len(turns) = 2
  /\ Len(turns[1]) >= 1
  /\ Len(turns[2]) >= 1
  /\ Len(transcriptionHistory) = 1
  /\ transcriptionHistory[1] # Concat(turns[1])
  /\ accumulatedTranscription # currentInputTranscription

\* The remote call of detectLanguage failed terminally, or its response
\* cannot be parsed.
DetectFailed(resp) == resp.kind \in {"rejected", "undefinedText", "malformed"}

\* C18: detectLanguage never rejects: the stop pipeline always goes on from
\* the detection to the translation, and when the remote call failed
\* terminally or the response cannot be parsed, detectLanguage resolved with
\* null and translateText is given no source language code.
C18_DetectNeverRejects ==
  [][(stage = "detect" /\ stage' # "detect") =>
       (/\ stage' = "translate"
        /\ translateArgs'.text = finalTranscription
        /\ DetectFailed(detectResponse') =>
             (detectedSourceLanguage' = NullLanguage
                /\ translateArgs'.code = "null"))]_vars

\* Witness of C18: the pipeline is at the translation after a detection whose
\* remote call was rejected.
C18_Witness ==
  /\ stage = "translate"
  /\ detectResponse.kind = "rejected"
  /\ translateArgs.code = "null"

(***************************************************************************)
(* Claims about the backoff after a server-suggested delay                 *)
(***************************************************************************)
\* The error carries no suggested delay: no RetryInfo detail, or one without
\* a retryDelay.
CarriesNoSuggestion(error) ==
  \/ ~error.details.isArray
  \/ FindRetryInfo(error.details.items) = 0
  \/ error.details.items[FindRetryInfo(error.details.items)].retryDelay = <<>>

\* C30: within one invocation the backoff continues from the last delay
\* used: when the previous retry waited a server-suggested delay d and the
\* error of the current retry carries no suggested delay, the current wait
\* is d * factor.
C30_BackoffContinuesFromLastDelay ==
  [][(/\ rpc = "attempting"
      /\ rpc' = "sleeping"
      /\ retries >= 1
      /\ customRetryDelay(lastErr) > 0
      /\ CarriesNoSuggestion(lastErr'))
       => /\ delay = customRetryDelay(lastErr)
          /\ delay' = customRetryDelay(lastErr) * policy.factor]_vars

\* A second wait, after a suggested delay of 5 seconds, that differs from
\* every value of the exponential schedule.
C30_Witness ==
  /\ rpc = "sleeping"
  /\ retries = 2
  /\ CarriesNoSuggestion(lastErr)
  /\ delay = 5000 * policy.factor
  /\ delay # policy.initialDelayMs * Pow(policy.factor, 2)

(***************************************************************************)
(* Claims about playback that falls behind the device clock                *)
(***************************************************************************)
\* The ids of the calls in a sequence of suspended calls or started sources.
IdsOf(entries) == {entries[i].id : i \in 1..Len(entries)}

\* The ids of a sequence of entries increase strictly.
IdsIncrease(entries) ==
  \A i, j \in 1..Len(entries) : i < j => entries[i].id < entries[j].id

\* With no stopAllAudio so far: sources were started in the order of their
\* calls and each once, before every call still suspended; their output
\* begins in that order, and no earlier than the clock at their start.
StartedInCallOrder ==
  stops = 0 =>
    /\ IdsIncrease(started)
    /\ IdsIncrease(pendingPlay)
    /\ \A i \in 1..Len(started), k \in 1..Len(pendingPlay) :
         started[i].id < pendingPlay[k].id
    /\ \A i \in 1..Len(started) :
         started[i].begins >= started[i].clockAtStart
    /\ \A i \in 1..(Len(started) - 1) :
         started[i].begins <= started[i + 1].begins

\* With no stopAllAudio so far: a call with a non-empty decodable chunk is
\* suspended with its buffer, a suspended call with a buffer stays
\* suspended or has its source started, and a started source stays started.
NoChunkDropped ==
  stops' = 0 =>
    /\ \A chunk \in Chunks :
         (PlayAudioCall(chunk) /\ ~DecodeThrows(chunk)) =>
           /\ pendingPlay'[Len(pendingPlay')].id = playCalls'
           /\ pendingPlay'[Len(pendingPlay')].buffer =
                [threw |-> FALSE, frames |-> Duration(chunk)]
    /\ \A k \in 1..Len(pendingPlay) :
         ~pendingPlay[k].buffer.threw =>
           /\ pendingPlay[k].id \in IdsOf(pendingPlay') \cup IdsOf(started')
           /\ pendingPlay[k].id \notin IdsOf(pendingPlay') =>
                /\ started'[Len(started')].id = pendingPlay[k].id
                /\ started'[Len(started')].frames = pendingPlay[k].buffer.frames
    /\ Len(started') >= Len(started)
    /\ SubSeq(started', 1, Len(started)) = started

\* C21: with no stopAllAudio in between, every non-empty decodable chunk
\* passed to playAudio is started exactly once, chunks start in the order of
\* their calls, and a late device clock only delays the start of a chunk.
C21_NoChunkLostOrReordered ==
  []StartedInCallOrder /\ [][NoChunkDropped]_vars

\* Three calls, the second with an undecodable chunk; the third is started
\* late, when the clock has passed the cursor.
C21_Witness ==
  /\ stops = 0
  /\ playCalls = 3
  /\ pendingPlay = <<>>
  /\ Len(started) = 2
  /\ started[1].id = 1 /\ started[2].id = 3
  /\ started[1].begins = 0 /\ started[1].frames = 1
  /\ started[2].clockAtStart = 2 /\ started[2].begins = 2

(***************************************************************************)
(* Claims about the set of active sources                                  *)
(***************************************************************************)
\* The output of a started source has finished.
OutputFinished(id) == SourceOf(id).begins + SourceOf(id).frames <= currentTime

\* The step starts the source of the call with this id.
Starts(id) ==
  /\ Len(started') = Len(started) + 1
  /\ started'[Len(started')].id = id

\* A source enters the set in the step that starts it, and never twice; a
\* source leaves in a stopAllAudio step or once its output has finished;
\* stopAllAudio removes every source.
ActiveSetSteps ==
  /\ \A id \in audioSources' \ audioSources :
       Starts(id) /\ id \notin IdsOf(started) /\ id \notin halted
  /\ \A id \in 1..MaxPlayCalls : Starts(id) => id \in audioSources'
  /\ \A id \in audioSources \ audioSources' :
       \/ stops' = stops + 1 /\ id \in halted'
       \/ stops' = stops /\ OutputFinished(id)
  /\ stops' = stops + 1 => audioSources' = {}

\* The active sources are started sources that were not stopped.
ActiveAreStarted ==
  /\ audioSources \subseteq IdsOf(started)
  /\ audioSources \cap halted = {}

\* When no further playAudio call is made, the set becomes empty.
ActiveSetDrains ==
  \A n \in 0..MaxFairCalls :
    (playCalls = n) ~>
      (playCalls > n \/ (pendingPlay = <<>> /\ audioSources = {}))

\* C26: the active set holds exactly the sources that were started and have
\* neither finished nor been stopped: a source enters when it is started,
\* leaves when its output has finished or stopAllAudio runs, never
\* re-enters, and with no further call the set eventually becomes empty.
C26_ActiveSetIsStartedNotEnded ==
  []ActiveAreStarted /\ [][ActiveSetSteps]_vars /\ ActiveSetDrains

\* One source was stopped, a later one played to its end and left the set.
C26_Witness ==
  /\ Len(started) = 2
  /\ halted = {started[1].id}
  /\ started[2].stopsAtCall = 1
  /\ OutputFinished(started[2].id)
  /\ audioSources = {}
  /\ pendingPlay = <<>>

(***************************************************************************)
(* Claims about the stop pipeline                                          *)
(***************************************************************************)
\* generateSpeech rejected with the error of a response without audio data,
\* rethrown by retry after the last attempt.
SpeechFailedWithoutAudio ==
  /\ stage = "speech"
  /\ lastEvent' = "speechFailed"
  /\ uiError' = NoAudioError.message

\* C27: when speech synthesis returns no audio data on every attempt and the
\* retries are exhausted, the translated text stays on display with the
\* note '(Note: Failed to generate speech for this translation.)' appended.
C27_NoAudioKeepsTextWithNote ==
  [][SpeechFailedWithoutAudio =>
       translatedText' = Append(translatedText, NoSpeechNote)]_vars

\* The stages of the stop pipeline follow one another in this order, or the
\* pipeline ends.
StageEdges ==
  {<<"idle", "detect">>, <<"detect", "translate">>, <<"translate", "speech">>,
   <<"speech", "play">>, <<"detect", "idle">>, <<"translate", "idle">>,
   <<"speech", "idle">>, <<"play", "idle">>}

\* The step is a Stop click.
StopClicked == isRecording /\ ~isLoading /\ lastEvent' = "clickStop"

\* A stage begins only from the stage before it; detection begins only in a
\* Stop click with a transcript; playAudio is called only when synthesis has
\* completed; a failed translation or synthesis ends the pipeline without a
\* playAudio call; a Stop click with an empty transcript starts no stage and
\* calls playAudio for no chunk.
StagesInOrder ==
  /\ stage' # stage => <<stage, stage'>> \in StageEdges
  /\ (stage = "idle" /\ stage' = "detect") =>
       (StopClicked /\ Trim(accumulatedTranscription) # <<>>)
  /\ playCalls' # playCalls =>
       (stage = "speech" /\ stage' = "play" /\ playCalls' = playCalls + 1)
  /\ lastEvent' \in {"translateFailed", "speechFailed"} =>
       (stage' = "idle" /\ playCalls' = playCalls /\ pendingPlay' = pendingPlay
          /\ started' = started)
  /\ (StopClicked /\ accumulatedTranscription = <<>>) =>
       (stage' = "idle" /\ ~isLoading' /\ playCalls' = playCalls
          /\ pendingPlay' = pendingPlay /\ started' = started)

\* C28: after a Stop with a transcript the stages run in the order detect,
\* translate, synthesize, schedule playback, each at most once per Stop and
\* each after the one before it has completed; a terminal failure of
\* translation or synthesis prevents the later stages; a Stop with an empty
\* transcript makes no remote call and schedules no audio.
C28_StagesRunInOrder ==
  [][StagesInOrder]_vars

\* A pipeline that ran through all four stages and started its audio.
C28_Witness ==
  /\ stage = "idle"
  /\ lastEvent = "play"
  /\ playCalls = 1
  /\ Len(started) = 1
  /\ hasSpeechOutput
  /\ translatedText = <<"h", "o", "l", "a">>

(***************************************************************************)
(* Claims about the capture resources                                      *)
(***************************************************************************)
\* C29: whenever isRecording is false and no start is in progress, no
\* capture resource is held: the media stream, the sample-block processor
\* and the input audio context are released and their refs are null,
\* whether recording ended by Stop, a failed start, a session error event
\* or a session close event.
C29_NoCaptureHeldWhenIdle ==
  (~isRecording /\ starting = {}) =>
    /\ mediaStreamRef = 0 /\ scriptProcessorRef = 0 /\ audioContextRef = 0
    /\ liveStreams = {} /\ liveProcessors = {} /\ openContexts = {}

(***************************************************************************)
(* Claims about the sample conversions                                     *)
(***************************************************************************)
\* C22: for every byte sequence and channel count, decodeAudioData yields a
\* buffer of length / (2 x channels) frames, every channel holding that many
\* samples, when the byte length is a multiple of 2 x channels, and fails
\* otherwise.
C22_DecodeFramesOrFails ==
  codecOut.op = "decodeAudioData" =>
    IF Len(codecIn.bytes) % (2 * codecOut.numChannels) = 0
    THEN /\ ~codecOut.buffer.threw
         /\ Len(codecOut.buffer.channels) = codecOut.numChannels
         /\ \A c \in 1..codecOut.numChannels :
              Len(codecOut.buffer.channels[c]) =
                Len(codecIn.bytes) \div (2 * codecOut.numChannels)
    ELSE codecOut.buffer.threw

\* The distance between two samples.
Distance(x, y) == IF x >= y THEN x - y ELSE y - x

\* One 16-bit quantization step, 1/32768.
QuantizationStep == SampleUnit \div FullScale

\* The samples drawn lie in [-1, 1].
InRange(floats) ==
  \A i \in 1..Len(floats) : floats[i] >= 0 - SampleUnit /\ floats[i] <= SampleUnit

\* C23: on the capture path every sample in [-1, 1], the ends included,
\* comes back from createPcmBlob and decodeAudioData within one quantization
\* step of its value, and never with the opposite sign.
C23_CaptureRoundTripWithinOneStep ==
  (codecOut.op = "roundTrip" /\ InRange(codecIn.floats) /\ codecIn.floats # <<>>) =>
    /\ ~codecOut.buffer.threw
    /\ Len(codecOut.buffer.channels[1]) = Len(codecIn.floats)
    /\ \A i \in 1..Len(codecIn.floats) :
         /\ Distance(codecOut.buffer.channels[1][i], codecIn.floats[i])
              <= QuantizationStep
         /\ codecIn.floats[i] > 0 => codecOut.buffer.channels[1][i] >= 0
         /\ codecIn.floats[i] < 0 => codecOut.buffer.channels[1][i] <= 0

\* The sample the i-th 16-bit value of the payload of a WAV file stands for.
WavSample(wav, i) ==
  Int16ToFloat(BytesInt16(wav[44 + 2 * i - 1], wav[44 + 2 * i]))

\* C24 as stated: on the WAV path, for every sample x in [-1, 1], the 16-bit
\* value floatTo16BitPCM writes, divided by 32768, differs from x by at most
\* one quantization step.
C24_WavSampleWithinOneStep ==
  codecOut.op = "encodeWAV" =>
    \A i \in 1..Len(codecIn.floats) :
      InRange(<<codecIn.floats[i]>>) =>
        Distance(WavSample(codecOut.data, i), codecIn.floats[i])
          <= QuantizationStep

\* C24: on the WAV path, for every sample x in [-1, 1], the 16-bit value
\* floatTo16BitPCM writes, divided by 32768, differs from x by less than two
\* quantization steps, and by at most one step when x <= 0 or x is a
\* multiple of 1/32768.
C24_WavSampleWithinTwoSteps ==
  codecOut.op = "encodeWAV" =>
    \A i \in 1..Len(codecIn.floats) :
      InRange(<<codecIn.floats[i]>>) =>
        /\ Distance(WavSample(codecOut.data, i), codecIn.floats[i])
             < 2 * QuantizationStep
        /\ (codecIn.floats[i] <= 0 \/ codecIn.floats[i] % QuantizationStep = 0) =>
             Distance(WavSample(codecOut.data, i), codecIn.floats[i])
               <= QuantizationStep

\* A positive sample just below 1.0, written one and a half steps low.
C24_Witness ==
  /\ codecOut.op = "encodeWAV"
  /\ codecIn.floats = <<SampleUnit - 1, 0 - SampleUnit>>
  /\ WavSample(codecOut.data, 1) = SampleUnit - 4
  /\ WavSample(codecOut.data, 2) = 0 - SampleUnit

\* The unsigned little-endian fields of a byte sequence, offsets from 0.
ReadU16(bytes, offset) == bytes[offset + 1] + 256 * bytes[offset + 2]
ReadU32(bytes, offset) ==
  ReadU16(bytes, offset) + 65536 * ReadU16(bytes, offset + 2)

\* C25: for every audio buffer, encodeWAV emits 44 header bytes followed by
\* the payload; the field at byte 4 is 36 + dataLength, the field at byte 40
\* is dataLength = 2 x frameCount, the byte rate is sampleRate x channels x
\* 2, the block align is channels x 2 and the bits per sample are 16.
C25_WavHeaderFields ==
  codecOut.op = "encodeWAV" =>
    LET wav == codecOut.data
        frameCount == Len(codecOut.buffer.channels[1])
        dataLength == 2 * frameCount
    IN /\ Len(wav) = 44 + dataLength
       /\ ReadU32(wav, 4) = 36 + dataLength
       /\ ReadU32(wav, 40) = dataLength
       /\ ReadU32(wav, 28) =
            codecOut.buffer.sampleRate * codecOut.buffer.numberOfChannels * 2
       /\ ReadU16(wav, 32) = codecOut.buffer.numberOfChannels * 2
       /\ ReadU16(wav, 34) = 16
       /\ \A i \in 1..frameCount :
            BytesInt16(wav[44 + 2 * i - 1], wav[44 + 2 * i]) =
              PcmValue(codecOut.buffer.channels[1][i])

\* A WAV file of two frames made from a buffer of two channels at 24000 Hz.
C25_Witness ==
  /\ codecOut.op = "encodeWAV"
  /\ codecOut.buffer.numberOfChannels = 2
  /\ codecOut.buffer.sampleRate = TTS_AUDIO_SAMPLE_RATE
  /\ Len(codecIn.floats) = 2
  /\ Len(codecOut.data) = 48
  /\ ReadU32(codecOut.data, 28) = 96000

(***************************************************************************)
(* Claims about a suggested delay of 0 seconds                             *)
(***************************************************************************)
\* The error carries a RetryInfo detail whose retryDelay is "0s".
SuggestsZeroSeconds(error) ==
  /\ error.details.isArray
  /\ FindRetryInfo(error.details.items) # 0
  /\ error.details.items[FindRetryInfo(error.details.items)].retryDelay =
       FormatSeconds(0)

\* C31: when a retryable failure carries a server-suggested retry delay of
\* 0 seconds, the next attempt waits that delay, 0 ms, and not the
\* exponential-backoff value.
C31_ZeroSuggestedDelayUsedVerbatim ==
  [][(/\ rpc = "attempting"
      /\ rpc' = "sleeping"
      /\ SuggestsZeroSeconds(lastErr'))
       => delay' = 0]_vars

(***************************************************************************)
(* Claims about the channels of a WAV file                                 *)
(***************************************************************************)
\* C34: for every buffer, whatever its channel count, the header encodeWAV
\* writes is consistent with the payload: the data chunk length, and the
\* number of payload bytes, is frameCount x block align, so the declared
\* channel count matches the samples written.
C34_WavHeaderMatchesPayload ==
  codecOut.op = "encodeWAV" =>
    LET wav == codecOut.data
        frameCount == Len(codecOut.buffer.channels[1])
    IN /\ ReadU16(wav, 22) = codecOut.buffer.numberOfChannels
       /\ ReadU32(wav, 40) = frameCount * ReadU16(wav, 32)
       /\ Len(wav) - 44 = frameCount * ReadU16(wav, 32)

(***************************************************************************)
(* C33: a captured block is forwarded exactly when the session ref exists  *)
(***************************************************************************)
\* An audioprocess event is delivered in this step.
BlockCaptured == captured' = captured + 1

\* The blocks forwarded are in capture order, none twice.
ForwardedInCaptureOrder ==
  \A i, j \in 1..Len(forwarded) :
    i < j => forwarded[i].block < forwarded[j].block

\* The handler of a connected node can run whatever the session, the stop
\* pipeline and the playback scheduler are at.
CaptureNeverWaits ==
  \A p \in liveProcessors : captured < MaxBlocks => ENABLED AudioProcess(p)

\* The block of this step is sent to the session the ref holds, which is
\* open, or to none if the ref is null; no other step sends anything.
ForwardedAtCaptureOnly ==
  /\ BlockCaptured /\ liveSessionRef # 0 =>
       /\ forwarded' =
            Append(forwarded, [block |-> captured', session |-> liveSessionRef])
       /\ liveSessionRef \in openSessions
  /\ BlockCaptured /\ liveSessionRef = 0 => forwarded' = forwarded
  /\ ~BlockCaptured => forwarded' = forwarded

\* C33: a block captured while liveSessionRef holds a session is sent to
\* that session once, in the step that captures it; a block captured while
\* the ref is null (before the session is established, after it is cleared)
\* is sent neither then nor later; the blocks sent are in capture order; and
\* the handler of a connected node is never blocked.
C33_BlockForwardedIffSessionRef ==
  /\ [](ForwardedInCaptureOrder /\ CaptureNeverWaits)
  /\ [][ForwardedAtCaptureOnly]_vars

\* One block dropped before the session is established, one forwarded to it,
\* one dropped after handleLiveError cleared the ref.
C33_Witness ==
  /\ captured = 3
  /\ forwarded = <<[block |-> 2, session |-> 1]>>
  /\ lastEvent = "liveError"
  /\ liveProcessors # {}

(***************************************************************************)
(* C32: every stop pipeline ends with isLoading false                      *)
(***************************************************************************)
\* The stop pipeline is in flight: between setIsLoading(true) and finally.
PipelineInFlight == stage # "idle"

\* While isLoading holds no Start click is taken and no pipeline begins.
NoSecondPipeline ==
  isLoading =>
    /\ startClicks' = startClicks
    /\ stage' = "detect" => stage = "detect"
    /\ finalTranscription' # finalTranscription => stage' = "idle"

\* C32: isLoading is true for as long as the stop pipeline is in flight, no
\* Start or Stop click is taken while it is true, and (each remote call
\* completing, each backoff timer firing) a pipeline in flight leads to a
\* state with the pipeline over and isLoading false, whether it succeeded,
\* failed on a fatal error or exhausted its retries.
C32_PipelineEndsNotLoading ==
  /\ [](PipelineInFlight => isLoading)
  /\ [][NoSecondPipeline]_vars
  /\ (PipelineInFlight ~> (~PipelineInFlight /\ ~isLoading))

\* translateText failed on a quota error, which retry rethrows only once
\* the retries are exhausted; the pipeline is over and isLoading is false.
C32_Witness ==
  /\ ~PipelineInFlight
  /\ ~isLoading
  /\ lastEvent = "translateFailed"
  /\ uiError = QuotaMessage

=============================================================================
